---- MODULE Spec2Model ----
(***************************************************************************)
(* Model of the sanjaya reporting engine: the filter tree and its two      *)
(* executors (row evaluator, SQL compiler), the in-memory and the SQL      *)
(* data providers, and the AG Grid SSRM translator.                        *)
(*                                                                         *)
(* Values are tagged records so that Python's structural equality and the  *)
(* "false on None / TypeError" comparator can be computed: a number and a  *)
(* string are never equal, and None is a value of its own.                 *)
(***************************************************************************)
EXTENDS Integers, Sequences, FiniteSets, TLC

VARIABLES
    fg,          \* filter spec: the FilterGroup under evaluation
    pyMatch,     \* filter spec: indices of Data rows the row evaluator accepts
    sqlMatch,    \* filter spec: indices of Data rows the SQL WHERE keeps
    fpc,         \* filter spec: "input" | "done" | "idle"
    qreq,        \* query spec: the arguments of the provider call
    qres,        \* query spec: what the provider call (or the export) returned
    qpc,         \* query spec: "input" | "done" | "idle"
    greq,        \* grid spec: the body of the grid request
    gcalls,      \* grid spec: the provider calls the handler made, in order
    gresp,       \* grid spec: the endpoint's response
    gdrill,      \* grid spec: the follow-up request of a drill-down and its response
    gpc,         \* grid spec: "input" | "done" | "drilled" | "idle"
    registry,    \* registry spec: the provider registry and its factories
    requests,    \* registry spec: each request thread's position in its registry call
    rlog,        \* registry spec: the registry calls that have returned or raised, in order
    sql,         \* SQL provider spec: one SQLAlchemyProvider and the calls made on it
    mock,        \* frame spec: one MockDataProvider, the objects it and its callers hold
    ag,          \* filterModel spec: an AG Grid filterModel and its translation
    doc,         \* document spec: a FilterGroup JSON document, parsed, dumped and parsed again
    mem,         \* memory spec: a list of rows, sorted or aggregated by the in-memory provider
    rep,         \* report spec: one saved report, its shares, and the last request to its actions endpoint
    piv          \* the pivot spec: dataset, request, aggregate result, export

vars == <<fg, pyMatch, sqlMatch, fpc, qreq, qres, qpc, greq, gcalls, gresp, gdrill, gpc,
          registry, requests, rlog, sql, mock, ag, doc, mem, rep, piv>>
filterVars == <<fg, pyMatch, sqlMatch, fpc>>
queryVars == <<qreq, qres, qpc>>
gridVars == <<greq, gcalls, gresp, gdrill, gpc>>
registryVars == <<registry, requests, rlog>>
sqlVars == <<sql>>
mockVars == <<mock>>
agVars == <<ag>>
docVars == <<doc>>
memVars == <<mem>>
repVars == <<rep>>
pivVars == <<piv>>

(***************************************************************************)
(* Bounds                                                                  *)
(***************************************************************************)
MaxDepth == 2     \* nesting levels of the filter groups of the filter spec
MaxCols == 2      \* length of selected_columns in the query spec
MaxLimit == 3     \* largest limit of the query spec
MaxOffset == 2    \* largest offset of the query spec
MaxKeys == 2      \* length of group_keys in the grid spec
MaxRow == 2       \* largest start_row / end_row of the grid spec
MaxRequests == 2  \* request threads of the registry spec
MaxCalls == 3     \* registry calls made in one behaviour of the registry spec
MaxSqlCalls == 2  \* calls made on the provider of the SQL provider spec
MaxFrameSteps == 3  \* provider calls and caller mutations of the frame spec
MaxEntries == 2   \* columns filtered by one filterModel of the filterModel spec

(***************************************************************************)
(* Values                                                                  *)
(***************************************************************************)
Null == [t |-> "null", n |-> 0, s |-> "", items |-> <<>>]
Num(k) == [t |-> "num", n |-> k, s |-> "", items |-> <<>>]
Str(cs) == [t |-> "str", n |-> 0, s |-> cs, items |-> <<>>]
List(vs) == [t |-> "list", n |-> 0, s |-> "", items |-> vs]

IsNone(v) == v.t = "null"

\* Python str(): the text of a value.
str(v) ==
    CASE v.t = "null" -> "None"
      [] v.t = "num" -> ToString(v.n)
      [] v.t = "str" -> v.s
      [] OTHER -> "[]"

\* Character order used by Python's string comparison (code point order).
CharOrder == <<"0", "1", "2", "3", "4", "5", "6", "7", "8", "9",
               "G", "N", "S", "W", "[", "]", "_", "a", "b", "d", "e", "i", "l",
               "n", "o", "p", "r", "s", "y", "z">>

CharRank(c) == CHOOSE i \in 1..Len(CharOrder) : CharOrder[i] = c

RECURSIVE StrLess(_, _)
StrLess(a, b) ==
    IF Len(b) = 0 THEN FALSE
    ELSE IF Len(a) = 0 THEN TRUE
    ELSE IF SubSeq(a, 1, 1) = SubSeq(b, 1, 1)
         THEN StrLess(SubSeq(a, 2, Len(a)), SubSeq(b, 2, Len(b)))
    ELSE CharRank(SubSeq(a, 1, 1)) < CharRank(SubSeq(b, 1, 1))

\* a < b on two non-null values of the same type.
ValLess(a, b) ==
    IF a.t = "num" THEN a.n < b.n ELSE StrLess(a.s, b.s)

IsPrefix(p, x) == Len(p) <= Len(x) /\ SubSeq(x, 1, Len(p)) = p
IsSuffix(p, x) == Len(p) <= Len(x) /\ SubSeq(x, Len(x) - Len(p) + 1, Len(x)) = p
IsInfix(p, x) ==
    \E i \in 0..(Len(x) - Len(p)) : SubSeq(x, i + 1, i + Len(p)) = p

(***************************************************************************)
(* The dataset: the rows held by the in-memory provider, and the same rows *)
(* as a SQL table (an absent cell is a NULL column value).                 *)
(***************************************************************************)
North == Str("N")
South == Str("S")

ColumnNames == <<"region", "year", "amount">>

RECURSIVE Dedup(_)
\* The distinct elements of a sequence, in order of first occurrence: the
\* key order of a dict built by inserting the elements in turn.
Dedup(q) ==
    IF q = <<>> THEN <<>>
    ELSE LET front == Dedup(SubSeq(q, 1, Len(q) - 1))
             last == q[Len(q)]
         IN IF \E i \in 1..Len(front) : front[i] = last THEN front
            ELSE Append(front, last)

Range(q) == {q[i] : i \in 1..Len(q)}

\* A Python dict: its keys in insertion order and the value of each key.
Dict(keys, f) == [keys |-> Dedup(keys), m |-> [k \in Range(keys) |-> f[k]]]

Data == <<
    Dict(<<"region", "year", "amount">>,
         [region |-> North, year |-> Num(1), amount |-> Num(1)]),
    Dict(<<"region", "year", "amount">>,
         [region |-> North, year |-> Num(2), amount |-> Num(2)]),
    Dict(<<"region", "year", "amount">>,
         [region |-> South, year |-> Num(1), amount |-> Null]),
    Dict(<<"region", "year">>,
         [region |-> South, year |-> Num(2)]),
    Dict(<<"year", "amount">>,
         [year |-> Num(2), amount |-> Num(2)])
>>

\* dict.get(column): an absent key reads as None.
Get(row, c) == IF c \in DOMAIN row.m THEN row.m[c] ELSE Null

(***************************************************************************)
(* Row evaluator (sanjaya_core/filters.py)                                 *)
(***************************************************************************)
safe_cmp(a, b, cmp) ==
    IF IsNone(a) \/ IsNone(b) THEN FALSE
    ELSE IF a.t # b.t \/ a.t = "list" THEN FALSE
    ELSE CASE cmp = "gt" -> ValLess(b, a)
           [] cmp = "lt" -> ValLess(a, b)
           [] cmp = "ge" -> ~ValLess(a, b)
           [] cmp = "le" -> ~ValLess(b, a)

match(cond, cell) ==
    LET v == cond.value IN
    CASE cond.operator = "eq" -> cell = v
      [] cond.operator = "neq" -> cell # v
      [] cond.operator = "gt" -> safe_cmp(cell, v, "gt")
      [] cond.operator = "lt" -> safe_cmp(cell, v, "lt")
      [] cond.operator = "gte" -> safe_cmp(cell, v, "ge")
      [] cond.operator = "lte" -> safe_cmp(cell, v, "le")
      [] cond.operator = "contains" ->
            ~IsNone(v) /\ ~IsNone(cell) /\ IsInfix(str(v), str(cell))
      [] cond.operator = "startswith" ->
            ~IsNone(v) /\ ~IsNone(cell) /\ IsPrefix(str(v), str(cell))
      [] cond.operator = "endswith" ->
            ~IsNone(v) /\ ~IsNone(cell) /\ IsSuffix(str(v), str(cell))
      [] cond.operator = "isNull" -> IsNone(cell)
      [] cond.operator = "isNotNull" -> ~IsNone(cell)
      [] cond.operator = "between" ->
            IF v.t # "list" \/ Len(v.items) # 2 THEN FALSE
            ELSE ~IsNone(cell)
                 /\ safe_cmp(cell, v.items[1], "ge")
                 /\ safe_cmp(cell, v.items[2], "le")
      [] cond.operator = "in" ->
            IF v.t # "list" THEN FALSE
            ELSE \E i \in 1..Len(v.items) : v.items[i] = cell
      [] OTHER -> FALSE

FilterCondition_evaluate(cond, row) ==
    LET result == match(cond, Get(row, cond.column)) IN
    IF cond.negate THEN ~result ELSE result

RECURSIVE FilterGroup_evaluate(_, _)
FilterGroup_evaluate(g, row) ==
    LET nc == Len(g.conditions)
        ng == Len(g.groups)
        part(i) == IF i <= nc
                   THEN FilterCondition_evaluate(g.conditions[i], row)
                   ELSE FilterGroup_evaluate(g.groups[i - nc], row)
        result == IF nc + ng = 0 THEN TRUE
                  ELSE IF g.combinator = "and"
                       THEN \A i \in 1..(nc + ng) : part(i)
                       ELSE \E i \in 1..(nc + ng) : part(i)
    IN IF g.negate THEN ~result ELSE result

(***************************************************************************)
(* SQL compiler (sanjaya_sqlalchemy/filters.py) and the three-valued       *)
(* evaluation of the compiled WHERE expression.  Truth values are "T",     *)
(* "F" and "U" (SQL NULL); a SELECT keeps a row only when WHERE is "T".    *)
(***************************************************************************)
compile_condition(cond) ==
    LET v == cond.value
        col == cond.column
        expr ==
          CASE cond.operator = "eq" ->
                 IF IsNone(v) THEN [k |-> "isnull", col |-> col]
                 ELSE [k |-> "cmp", op |-> "eq", col |-> col, v |-> v]
            [] cond.operator = "neq" ->
                 IF IsNone(v) THEN [k |-> "isnotnull", col |-> col]
                 ELSE [k |-> "cmp", op |-> "neq", col |-> col, v |-> v]
            [] cond.operator = "gt" -> [k |-> "cmp", op |-> "gt", col |-> col, v |-> v]
            [] cond.operator = "lt" -> [k |-> "cmp", op |-> "lt", col |-> col, v |-> v]
            [] cond.operator = "gte" -> [k |-> "cmp", op |-> "ge", col |-> col, v |-> v]
            [] cond.operator = "lte" -> [k |-> "cmp", op |-> "le", col |-> col, v |-> v]
            [] cond.operator = "contains" ->
                 [k |-> "like", mode |-> "contains", col |-> col, pat |-> str(v)]
            [] cond.operator = "startswith" ->
                 [k |-> "like", mode |-> "startswith", col |-> col, pat |-> str(v)]
            [] cond.operator = "endswith" ->
                 [k |-> "like", mode |-> "endswith", col |-> col, pat |-> str(v)]
            [] cond.operator = "isNull" -> [k |-> "isnull", col |-> col]
            [] cond.operator = "isNotNull" -> [k |-> "isnotnull", col |-> col]
            [] cond.operator = "between" ->
                 [k |-> "between", col |-> col, lo |-> v.items[1], hi |-> v.items[2]]
            [] cond.operator = "in" -> [k |-> "in", col |-> col, items |-> v.items]
            [] OTHER -> [k |-> "lit"]
    IN IF cond.negate THEN [k |-> "not", e |-> expr] ELSE expr

RECURSIVE compile_filter_group(_)
compile_filter_group(g) ==
    LET nc == Len(g.conditions)
        ng == Len(g.groups)
        parts == [i \in 1..(nc + ng) |->
                    IF i <= nc THEN compile_condition(g.conditions[i])
                    ELSE compile_filter_group(g.groups[i - nc])]
        expr == IF nc + ng = 0 THEN [k |-> "lit"]
                ELSE IF g.combinator = "and" THEN [k |-> "and", es |-> parts]
                ELSE [k |-> "or", es |-> parts]
    IN IF g.negate THEN [k |-> "not", e |-> expr] ELSE expr

Not3(a) == CASE a = "T" -> "F" [] a = "F" -> "T" [] OTHER -> "U"
And3(a, b) ==
    IF a = "F" \/ b = "F" THEN "F" ELSE IF a = "T" /\ b = "T" THEN "T" ELSE "U"
Or3(a, b) ==
    IF a = "T" \/ b = "T" THEN "T" ELSE IF a = "F" /\ b = "F" THEN "F" ELSE "U"
Bool3(b) == IF b THEN "T" ELSE "F"

\* A SQL comparison of a column value with a bound parameter of its type.
SqlCmp(op, c, v) ==
    IF IsNone(c) \/ IsNone(v) THEN "U"
    ELSE CASE op = "eq" -> Bool3(c = v)
           [] op = "neq" -> Bool3(c # v)
           [] op = "gt" -> Bool3(ValLess(v, c))
           [] op = "lt" -> Bool3(ValLess(c, v))
           [] op = "ge" -> Bool3(~ValLess(c, v))
           [] op = "le" -> Bool3(~ValLess(v, c))

\* col LIKE pattern with the pattern's wildcards escaped (autoescape).
SqlLike(mode, c, pat) ==
    IF IsNone(c) THEN "U"
    ELSE CASE mode = "contains" -> Bool3(IsInfix(pat, str(c)))
           [] mode = "startswith" -> Bool3(IsPrefix(pat, str(c)))
           [] mode = "endswith" -> Bool3(IsSuffix(pat, str(c)))

\* col IN (items): an empty list renders as an empty set, which is false.
SqlIn(c, items) ==
    LET hit == \E i \in 1..Len(items) : SqlCmp("eq", c, items[i]) = "T"
        unk == \E i \in 1..Len(items) : SqlCmp("eq", c, items[i]) = "U"
    IN IF hit THEN "T" ELSE IF unk THEN "U" ELSE "F"

RECURSIVE SqlEval(_, _)
SqlEval(e, row) ==
    CASE e.k = "lit" -> "T"
      [] e.k = "cmp" -> SqlCmp(e.op, Get(row, e.col), e.v)
      [] e.k = "isnull" -> Bool3(IsNone(Get(row, e.col)))
      [] e.k = "isnotnull" -> Bool3(~IsNone(Get(row, e.col)))
      [] e.k = "like" ->
            SqlLike(e.mode, Get(row, e.col), e.pat)
      [] e.k = "between" ->
            And3(SqlCmp("ge", Get(row, e.col), e.lo), SqlCmp("le", Get(row, e.col), e.hi))
      [] e.k = "in" -> SqlIn(Get(row, e.col), e.items)
      [] e.k = "not" -> Not3(SqlEval(e.e, row))
      [] e.k = "and" ->
            IF \E i \in 1..Len(e.es) : SqlEval(e.es[i], row) = "F" THEN "F"
            ELSE IF \A i \in 1..Len(e.es) : SqlEval(e.es[i], row) = "T" THEN "T"
            ELSE "U"
      [] e.k = "or" ->
            IF \E i \in 1..Len(e.es) : SqlEval(e.es[i], row) = "T" THEN "T"
            ELSE IF \A i \in 1..Len(e.es) : SqlEval(e.es[i], row) = "F" THEN "F"
            ELSE "U"

\* The rows of Data a SELECT ... WHERE <expr> returns (as row indices).
SqlWhere(expr) == {i \in 1..Len(Data) : SqlEval(expr, Data[i]) = "T"}

(***************************************************************************)
(* Bounded filter inputs: conditions over every operator, with values of   *)
(* the column's own type or None, with and without negate.                 *)
(***************************************************************************)
Cond(c, o, v, neg) == [column |-> c, operator |-> o, value |-> v, negate |-> neg]

ScalarOps == {"eq", "neq", "gt", "lt", "gte", "lte"}
TextOps == {"contains", "startswith", "endswith"}

Conditions ==
    {Cond("amount", o, v, neg) :
        o \in ScalarOps, v \in {Num(1), Num(2), Null}, neg \in BOOLEAN}
    \cup {Cond("amount", o, Null, neg) : o \in {"isNull", "isNotNull"}, neg \in BOOLEAN}
    \cup {Cond("amount", "between", List(v), neg) :
            v \in {<<Num(1), Num(2)>>, <<Num(2), Num(1)>>}, neg \in BOOLEAN}
    \cup {Cond("amount", "in", List(v), neg) :
            v \in {<<>>, <<Num(1)>>}, neg \in BOOLEAN}
    \cup {Cond("region", o, North, neg) : o \in TextOps \cup {"eq"}, neg \in BOOLEAN}

Group(comb, neg, conds, groups) ==
    [combinator |-> comb, negate |-> neg, conditions |-> conds, groups |-> groups]

RECURSIVE FilterGroups(_)
FilterGroups(depth) ==
    LET condSeqs == {<<>>} \cup {<<c>> : c \in Conditions}
        groupSeqs == IF depth = 0 THEN {<<>>}
                     ELSE {<<>>} \cup {<<g>> : g \in FilterGroups(depth - 1)}
    IN {Group(comb, neg, cs, gs) :
           comb \in {"and", "or"}, neg \in BOOLEAN, cs \in condSeqs, gs \in groupSeqs}

EmptyGroup == Group("and", FALSE, <<>>, <<>>)

(***************************************************************************)
(* Filter specification: one filter group, evaluated over the dataset by   *)
(* the row evaluator and by the compiled WHERE clause.                     *)
(***************************************************************************)
NoFilter == [combinator |-> "none", negate |-> FALSE, conditions |-> <<>>, groups |-> <<>>]

NoResult == [provider |-> "none", op |-> "none", status |-> "none",
             columns |-> <<>>, rows |-> <<>>, total |-> 0]

NoQuery == [selected_columns |-> <<>>, filter_group |-> NoFilter, sort |-> <<>>,
            limit |-> 0, offset |-> 0]

NoRequest == [start_row |-> 0, end_row |-> 0, row_group_cols |-> <<>>,
              group_keys |-> <<>>, value_cols |-> <<>>, pivot_cols |-> <<>>,
              pivot_mode |-> FALSE, sort_model |-> <<>>, filter |-> NoFilter,
              filter_model |-> <<>>]

NoResponse == [endpoint |-> "none", capabilities_pivot |-> FALSE, status |-> 0,
               error |-> "", row_data |-> <<>>, row_count |-> 0,
               pivot_result_fields |-> <<>>]

NoDrill == [group_keys |-> <<>>, parent |-> 0, calls |-> <<>>, response |-> NoResponse]

FilterIdle == fg = EmptyGroup /\ pyMatch = {} /\ sqlMatch = {} /\ fpc = "idle"
QueryIdle == qreq = NoQuery /\ qres = NoResult /\ qpc = "idle"
SqlIdle ==
    sql = [pc |-> "idle", engine |-> "", selectable |-> "", columns |-> <<>>,
           made |-> [engine |-> 0, selectable |-> 0], log |-> <<>>]

MockIdle == mock = [heap |-> <<>>, data |-> <<>>, columns |-> 0, log |-> <<>>]

AgIdle == ag = [pc |-> "idle", filter_model |-> <<>>, parsed |-> NoFilter]

DocIdle ==
    doc = [pc |-> "idle", by_alias |-> FALSE, x |-> <<>>, parsed |-> NoFilter,
           d |-> <<>>, again |-> NoFilter, redumped |-> <<>>]

MemIdle ==
    mem = [pc |-> "idle", rows |-> <<>>, sort |-> <<>>, agg |-> "", column |-> "",
           sorted |-> <<>>, value |-> Null]

RepIdle ==
    rep = [pc |-> "idle", report |-> <<>>, exists |-> FALSE, favorites |-> {}, bob |-> <<>>,
           clock |-> 0, last |-> <<>>]

PivIdle == piv = [pc |-> "idle"]

GridIdle ==
    /\ greq = NoRequest
    /\ gcalls = <<>>
    /\ gresp = NoResponse
    /\ gdrill = NoDrill
    /\ gpc = "idle"
RegistryIdle ==
    /\ registry = [providers |-> <<>>, lazy |-> <<>>, calls |-> <<>>, flaky |-> {},
                   startup |-> {}]
    /\ requests = <<>>
    /\ rlog = <<>>

FilterInit ==
    /\ fg \in FilterGroups(MaxDepth - 1)
    /\ pyMatch = {}
    /\ sqlMatch = {}
    /\ fpc = "input"
    /\ QueryIdle
    /\ GridIdle
    /\ RegistryIdle
    /\ SqlIdle
    /\ MockIdle
    /\ AgIdle
    /\ DocIdle
    /\ MemIdle
    /\ RepIdle
    /\ PivIdle

EvaluateFilter ==
    /\ fpc = "input"
    /\ pyMatch' = {i \in 1..Len(Data) : FilterGroup_evaluate(fg, Data[i])}
    /\ sqlMatch' = SqlWhere(compile_filter_group(fg))
    /\ fpc' = "done"
    /\ UNCHANGED <<fg, queryVars, gridVars, registryVars, sqlVars, mockVars, agVars, docVars, memVars, repVars, pivVars>>

FilterNext == EvaluateFilter

SpecFilter == FilterInit /\ [][FilterNext]_vars

\* C1: the row evaluator accepts a row exactly when the SELECT whose WHERE
\* clause is compile_filter_group(group) returns it.
C1_FilterEquivalence == fpc = "done" => pyMatch = sqlMatch

(***************************************************************************)
(* In-memory provider (sanjaya_core/mock.py)                               *)
(***************************************************************************)
apply_filter(rows, f) ==
    IF f = NoFilter THEN rows
    ELSE SelectSeq(rows, LAMBDA r : FilterGroup_evaluate(f, r))

\* The sort key (0, value) / (1,): a < b on the keys of two cells.
KeyLess(a, b) ==
    IF IsNone(a) THEN FALSE ELSE IF IsNone(b) THEN TRUE ELSE ValLess(a, b)

\* x sorts strictly before y on column c (reverse=True inverts the order).
Before(x, y, c, desc) ==
    IF desc THEN KeyLess(Get(y, c), Get(x, c)) ELSE KeyLess(Get(x, c), Get(y, c))

RECURSIVE sorted(_, _, _)
\* Python's stable sorted(rows, key, reverse): rows with equal keys keep their order.
sorted(rows, c, desc) ==
    IF rows = <<>> THEN <<>>
    ELSE LET front == sorted(SubSeq(rows, 1, Len(rows) - 1), c, desc)
             r == rows[Len(rows)]
             after == {i \in 1..Len(front) : Before(r, front[i], c, desc)}
             pos == IF after = {} THEN Len(front) + 1
                    ELSE CHOOSE i \in after : \A j \in after : i <= j
         IN SubSeq(front, 1, pos - 1) \o <<r>> \o SubSeq(front, pos, Len(front))

RECURSIVE apply_sort_forward(_, _)
\* A sort that takes the SortSpecs in list order: for spec in sort.
apply_sort_forward(rows, sort) ==
    IF sort = <<>> THEN rows
    ELSE LET spec == sort[Len(sort)] IN
         sorted(apply_sort_forward(rows, SubSeq(sort, 1, Len(sort) - 1)),
                spec.column, spec.direction = "desc")

RECURSIVE apply_sort(_, _)
\* for spec in reversed(sort): rows = sorted(rows, ...)
apply_sort(rows, sort) ==
    IF sort = <<>> THEN rows
    ELSE LET spec == sort[1] IN
         sorted(apply_sort(rows, Tail(sort)), spec.column, spec.direction = "desc")

\* islice(rows, offset, offset + limit if limit else None)
islice(rows, offset, limit) ==
    LET stop == IF limit # 0 THEN offset + limit ELSE Len(rows)
        last == IF stop < Len(rows) THEN stop ELSE Len(rows)
    IN SubSeq(rows, offset + 1, last)

\* A projection that copies only the cells the stored row has, unlike _project.
project_row_present_only(r, columns) ==
    LET present == SelectSeq(columns, LAMBDA c : c \in DOMAIN r.m)
    IN Dict(present, [c \in Range(present) |-> r.m[c]])

project_row(r, columns) == Dict(columns, [c \in Range(columns) |-> Get(r, c)])

project(rows, columns) == [i \in 1..Len(rows) |-> project_row(rows[i], columns)]

MockQuery(selected_columns, filter_group, sort, limit, offset) ==
    LET filtered == apply_filter(Data, filter_group)
        total == Len(filtered)
        page == islice(apply_sort(filtered, sort), offset, limit)
    IN [status |-> "ok", columns |-> selected_columns,
        rows |-> project(page, selected_columns), total |-> total]

\* Python slicing rows[offset:end], end = offset + limit if limit else None;
\* limit is None (here -1) or 0 for "no limit".
slice_page(rows, offset, limit) ==
    LET stop == IF limit > 0 THEN offset + limit ELSE Len(rows)
        last == IF stop < Len(rows) THEN stop ELSE Len(rows)
    IN SubSeq(rows, offset + 1, last)

RECURSIVE SumVals(_)
SumVals(vals) == IF vals = <<>> THEN 0 ELSE vals[1].n + SumVals(Tail(vals))

MinVal(vals) == CHOOSE v \in Range(vals) : \A w \in Range(vals) : ~ValLess(w, v)
MaxVal(vals) == CHOOSE v \in Range(vals) : \A w \in Range(vals) : ~ValLess(v, w)

RECURSIVE Gcd(_, _)
Gcd(a, b) == IF b = 0 THEN a ELSE Gcd(b, a % b)

\* The float a / b (b > 0, a >= 0), held as the fraction in lowest terms:
\* n is the numerator and items holds the denominator.
Float(a, b) ==
    [t |-> "float", n |-> a \div Gcd(a, b), s |-> "", items |-> <<Num(b \div Gcd(a, b))>>]

\* An aggregation whose every function sees the non-null values only.
compute_agg_non_null(agg, column, rows) ==
    LET raw == [i \in 1..Len(rows) |-> Get(rows[i], column)]
        non_null == SelectSeq(raw, LAMBDA v : ~IsNone(v))
    IN CASE agg = "count" -> Num(Len(non_null))
         [] agg = "distinctCount" -> Num(Cardinality(Range(non_null)))
         [] agg = "sum" -> IF non_null # <<>> THEN Num(SumVals(non_null)) ELSE Null
         [] agg = "avg" -> IF non_null # <<>>
                           THEN Float(SumVals(non_null), Len(non_null)) ELSE Null
         [] agg = "min" -> IF non_null # <<>> THEN MinVal(non_null) ELSE Null
         [] agg = "max" -> IF non_null # <<>> THEN MaxVal(non_null) ELSE Null
         [] agg = "first" -> IF non_null # <<>> THEN non_null[1] ELSE Null
         [] agg = "last" -> IF non_null # <<>> THEN non_null[Len(non_null)] ELSE Null
         [] OTHER -> Null

compute_agg(agg, column, rows) ==
    LET raw == [i \in 1..Len(rows) |-> Get(rows[i], column)]
        non_null == SelectSeq(raw, LAMBDA v : ~IsNone(v))
    IN CASE agg = "count" -> Num(Len(raw))
         [] agg = "distinctCount" -> Num(Cardinality(Range(raw)))
         [] agg = "sum" -> IF non_null # <<>> THEN Num(SumVals(non_null)) ELSE Null
         [] agg = "avg" -> IF non_null # <<>>
                           THEN Float(SumVals(non_null), Len(non_null)) ELSE Null
         [] agg = "min" -> IF non_null # <<>> THEN MinVal(non_null) ELSE Null
         [] agg = "max" -> IF non_null # <<>> THEN MaxVal(non_null) ELSE Null
         [] agg = "first" -> IF raw # <<>> THEN raw[1] ELSE Null
         [] agg = "last" -> IF raw # <<>> THEN raw[Len(raw)] ELSE Null
         [] OTHER -> Null

\* The group key of a row: tuple(row.get(c) for c in cols).
GroupKey(row, cols) == [i \in 1..Len(cols) |-> Get(row, cols[i])]

\* The keys of the buckets dict, in insertion order, and the rows of one bucket.
BucketKeys(rows, cols) == Dedup([i \in 1..Len(rows) |-> GroupKey(rows[i], cols)])
Bucket(rows, cols, gk) == SelectSeq(rows, LAMBDA r : GroupKey(r, cols) = gk)

AggKey(vs) == vs.agg \o "_" \o vs.column

AggregateColumn(key, header, pivot_keys, measure, agg) ==
    [key |-> key, header |-> header, pivot_keys |-> pivot_keys,
     measure |-> measure, agg |-> agg]

DimColumns(group_by_rows) ==
    [i \in 1..Len(group_by_rows) |->
        AggregateColumn(group_by_rows[i], group_by_rows[i], <<>>, "", "")]

\* The last index of key k in a sequence of keys (a later write to a dict key
\* replaces the earlier one), 0 when absent.
LastIndex(keys, k) ==
    IF \E i \in 1..Len(keys) : keys[i] = k
    THEN CHOOSE i \in 1..Len(keys) :
            keys[i] = k /\ \A h \in (i + 1)..Len(keys) : keys[h] # k
    ELSE 0

\* The dict written key by key: keys[i] = vals[i] in turn.
DictOf(keys, vals) == Dict(keys, [k \in Range(keys) |-> vals[LastIndex(keys, k)]])

\* total = len(result_rows); result_rows[offset:end]
PageOf(columns, ordered, limit, offset) ==
    [status |-> "ok", columns |-> columns,
     rows |-> slice_page(ordered, offset, limit), total |-> Len(ordered)]

ValueColumn(vs) ==
    AggregateColumn(AggKey(vs), IF vs.label # "" THEN vs.label ELSE AggKey(vs),
                    <<>>, vs.column, vs.agg)

\* One result row of the simple aggregation: the group's dimensions, then
\* each measure over the bucket.
SimpleRow(bucket, gk, group_by_rows, values) ==
    DictOf(group_by_rows \o [i \in 1..Len(values) |-> AggKey(values[i])],
           gk \o [i \in 1..Len(values) |->
                     compute_agg(values[i].agg, values[i].column, bucket)])

SimpleRows(rows, gks, group_by_rows, values) ==
    [b \in 1..Len(gks) |->
        SimpleRow(Bucket(rows, group_by_rows, gks[b]), gks[b], group_by_rows, values)]

simple_aggregate(rows, group_by_rows, values, sort, limit, offset) ==
    PageOf(DimColumns(group_by_rows) \o [i \in 1..Len(values) |-> ValueColumn(values[i])],
           apply_sort(SimpleRows(rows, BucketKeys(rows, group_by_rows),
                                 group_by_rows, values), sort),
           limit, offset)

\* a < b on two pivot tuples of equal length, as Python compares tuples.
RECURSIVE TupleLess(_, _)
TupleLess(a, b) ==
    IF a = <<>> THEN FALSE
    ELSE IF a[1] = b[1] THEN TupleLess(Tail(a), Tail(b))
    ELSE ValLess(a[1], b[1])

\* sorted(pivot_combos) raises TypeError when two tuples first differ in a
\* position where one value is None or the two are of different types.
RECURSIVE Incomparable(_, _)
Incomparable(a, b) ==
    IF a = <<>> THEN FALSE
    ELSE IF a[1] = b[1] THEN Incomparable(Tail(a), Tail(b))
    ELSE IsNone(a[1]) \/ IsNone(b[1]) \/ a[1].t # b[1].t

RECURSIVE UnorderedTuples(_)
\* The combinations as a set may yield them without sorted(): largest first.
UnorderedTuples(S) ==
    IF S = {} THEN <<>>
    ELSE LET any == CHOOSE x \in S : \A y \in S : ~TupleLess(x, y)
         IN <<any>> \o UnorderedTuples(S \ {any})

RECURSIVE SortedTuples(_)
SortedTuples(S) ==
    IF S = {} THEN <<>>
    ELSE LET least == CHOOSE x \in S : \A y \in S : ~TupleLess(y, x)
         IN <<least>> \o SortedTuples(S \ {least})

RECURSIVE Join(_, _)
\* sep.join(parts)
Join(parts, sep) ==
    IF parts = <<>> THEN ""
    ELSE IF Len(parts) = 1 THEN parts[1]
    ELSE parts[1] \o sep \o Join(Tail(parts), sep)

PivotParts(combo) == [i \in 1..Len(combo) |-> str(combo[i])]
PivotKey(combo, vs) == Join(PivotParts(combo) \o <<vs.agg, vs.column>>, "_")

PivotColumn(combo, vs) ==
    AggregateColumn(PivotKey(combo, vs), PivotKey(combo, vs), PivotParts(combo),
                    vs.column, vs.agg)

\* for combo in sorted_combos: for vs in values: one column
PivotColumns(sorted_combos, values) ==
    [i \in 1..(Len(sorted_combos) * Len(values)) |->
        PivotColumn(sorted_combos[((i - 1) \div Len(values)) + 1],
                    values[((i - 1) % Len(values)) + 1])]

\* One result row of the pivot aggregation: the dimensions of row group rk,
\* then, bucket by bucket (mine: the bucket keys of the row group), each
\* measure under its pivot key.
PivotRow(rows, mine, rk, all_cols, values) ==
    DictOf(SubSeq(all_cols, 1, Len(rk))
           \o [i \in 1..(Len(mine) * Len(values)) |->
                 PivotKey(SubSeq(mine[((i - 1) \div Len(values)) + 1],
                                 Len(rk) + 1, Len(all_cols)),
                          values[((i - 1) % Len(values)) + 1])],
           rk
           \o [i \in 1..(Len(mine) * Len(values)) |->
                 compute_agg(values[((i - 1) % Len(values)) + 1].agg,
                             values[((i - 1) % Len(values)) + 1].column,
                             Bucket(rows, all_cols,
                                    mine[((i - 1) \div Len(values)) + 1]))])

PivotRows(rows, gks, row_keys, all_cols, values) ==
    [i \in 1..Len(row_keys) |->
        PivotRow(rows,
                 SelectSeq(gks, LAMBDA gk : SubSeq(gk, 1, Len(row_keys[i])) = row_keys[i]),
                 row_keys[i], all_cols, values)]

\* The pivot aggregation over the bucket keys gks and the set of their pivot parts.
PivotResult(rows, gks, pivot_combos, group_by_rows, all_cols, values, sort, limit, offset) ==
    IF \E a \in pivot_combos, b \in pivot_combos : Incomparable(a, b)
    THEN [status |-> "TypeError", columns |-> <<>>, rows |-> <<>>, total |-> 0]
    ELSE PageOf(DimColumns(group_by_rows)
                \o PivotColumns(SortedTuples(pivot_combos), values),
                apply_sort(PivotRows(rows, gks,
                                     Dedup([i \in 1..Len(gks) |->
                                              SubSeq(gks[i], 1, Len(group_by_rows))]),
                                     all_cols, values),
                           sort),
                limit, offset)

PivotCombos(gks, n_row_dims) ==
    {SubSeq(gks[i], n_row_dims + 1, Len(gks[i])) : i \in 1..Len(gks)}

pivot_aggregate(rows, group_by_rows, group_by_cols, values, sort, limit, offset) ==
    PivotResult(rows, BucketKeys(rows, group_by_rows \o group_by_cols),
                PivotCombos(BucketKeys(rows, group_by_rows \o group_by_cols),
                            Len(group_by_rows)),
                group_by_rows, group_by_rows \o group_by_cols, values,
                sort, limit, offset)

\* aggregate() over the rows that passed the filter.
AggregateRows(rows, group_by_rows, group_by_cols, values, sort, limit, offset) ==
    IF group_by_cols # <<>>
    THEN pivot_aggregate(rows, group_by_rows, group_by_cols, values, sort, limit, offset)
    ELSE simple_aggregate(rows, group_by_rows, values, sort, limit, offset)

MockAggregate(group_by_rows, group_by_cols, values, filter_group, sort, limit, offset) ==
    AggregateRows(apply_filter(Data, filter_group), group_by_rows, group_by_cols,
                  values, sort, limit, offset)

(***************************************************************************)
(* SQL provider (sanjaya_sqlalchemy/provider.py).  The table holds Data;   *)
(* the backend decides the row order of a SELECT without ORDER BY and the  *)
(* place of NULLs in an ORDER BY.                                          *)
(***************************************************************************)
Reverse(q) == [i \in 1..Len(q) |-> q[Len(q) + 1 - i]]

Backends ==
    [scan : {[i \in 1..Len(Data) |-> i], Reverse([i \in 1..Len(Data) |-> i])},
     nulls_last : BOOLEAN]

RECURSIVE FilterColumns(_)
FilterColumns(g) ==
    {g.conditions[i].column : i \in 1..Len(g.conditions)}
    \cup UNION {FilterColumns(g.groups[i]) : i \in 1..Len(g.groups)}

\* column_lookup[name] raises KeyError for a name that is not a column.
LookupFails(names) == names \ Range(ColumnNames) # {}

SqlKeyLess(a, b, nulls_last) ==
    IF IsNone(a) THEN ~nulls_last /\ ~IsNone(b)
    ELSE IF IsNone(b) THEN nulls_last
    ELSE ValLess(a, b)

SqlBefore(x, y, c, desc, nulls_last) ==
    IF desc THEN SqlKeyLess(Get(y, c), Get(x, c), nulls_last)
    ELSE SqlKeyLess(Get(x, c), Get(y, c), nulls_last)

\* ORDER BY clauses: x comes strictly before y on the first clause that tells them apart.
RECURSIVE OrderBefore(_, _, _, _)
OrderBefore(x, y, sort, nulls_last) ==
    IF sort = <<>> THEN FALSE
    ELSE LET c == sort[1].column
             desc == sort[1].direction = "desc"
         IN IF SqlBefore(x, y, c, desc, nulls_last) THEN TRUE
            ELSE IF SqlBefore(y, x, c, desc, nulls_last) THEN FALSE
            ELSE OrderBefore(x, y, Tail(sort), nulls_last)

RECURSIVE SqlOrderBy(_, _, _)
SqlOrderBy(rows, sort, nulls_last) ==
    IF rows = <<>> THEN <<>>
    ELSE LET front == SqlOrderBy(SubSeq(rows, 1, Len(rows) - 1), sort, nulls_last)
             r == rows[Len(rows)]
             after == {i \in 1..Len(front) : OrderBefore(r, front[i], sort, nulls_last)}
             pos == IF after = {} THEN Len(front) + 1
                    ELSE CHOOSE i \in after : \A j \in after : i <= j
         IN SubSeq(front, 1, pos - 1) \o <<r>> \o SubSeq(front, pos, Len(front))

\* stmt.limit(limit).offset(offset): LIMIT limit OFFSET offset, LIMIT 0 included.
SqlLimitOffset(rows, limit, offset) ==
    LET stop == offset + limit
        last == IF stop < Len(rows) THEN stop ELSE Len(rows)
    IN SubSeq(rows, offset + 1, last)

SqlQuery(selected_columns, filter_group, sort, limit, offset, backend) ==
    LET used == (IF filter_group = NoFilter THEN {} ELSE FilterColumns(filter_group))
                \cup Range(selected_columns)
                \cup {sort[i].column : i \in 1..Len(sort)}
        where == IF filter_group = NoFilter THEN [k |-> "lit"]
                 ELSE compile_filter_group(filter_group)
        kept == SqlWhere(where)
        scanned == SelectSeq([i \in 1..Len(Data) |-> Data[backend.scan[i]]],
                             LAMBDA r : SqlEval(where, r) = "T")
        page == SqlLimitOffset(SqlOrderBy(scanned, sort, backend.nulls_last),
                               limit, offset)
    IN IF LookupFails(used)
       THEN [status |-> "KeyError", columns |-> <<>>, rows |-> <<>>, total |-> 0]
       ELSE [status |-> "ok", columns |-> selected_columns,
             rows |-> project(page, selected_columns), total |-> Cardinality(kept)]

(***************************************************************************)
(* Query specification: one provider call, or one flat export, with        *)
(* arguments drawn from bounded sets.                                      *)
(***************************************************************************)
QueryNames == {"region", "amount", "bogus"}

RECURSIVE SeqsUpTo(_, _)
\* The sequences over S of length 1..n.
SeqsUpTo(S, n) ==
    IF n = 0 THEN {}
    ELSE {<<x>> : x \in S}
         \cup {Append(q, x) : q \in SeqsUpTo(S, n - 1), x \in S}

SortSpec(c, d) == [column |-> c, direction |-> d]

QueryFilters ==
    {NoFilter,
     Group("and", FALSE, <<Cond("region", "eq", North, FALSE)>>, <<>>),
     Group("and", FALSE, <<Cond("region", "eq", North, TRUE)>>, <<>>),
     Group("or", FALSE, <<Cond("amount", "isNull", Null, FALSE),
                          Cond("amount", "gt", Num(1), FALSE)>>, <<>>),
     Group("and", FALSE, <<Cond("bogus", "eq", North, FALSE)>>, <<>>)}

QuerySorts ==
    {<<>>,
     <<SortSpec("amount", "asc")>>,
     <<SortSpec("amount", "desc")>>,
     <<SortSpec("region", "desc"), SortSpec("amount", "asc")>>,
     <<SortSpec("bogus", "asc")>>}

QueryInit ==
    /\ qreq \in [selected_columns : SeqsUpTo(QueryNames, MaxCols),
                 filter_group : QueryFilters,
                 sort : QuerySorts,
                 limit : 0..MaxLimit,
                 offset : 0..MaxOffset]
    /\ qres = NoResult
    /\ qpc = "input"
    /\ FilterIdle
    /\ GridIdle
    /\ RegistryIdle
    /\ SqlIdle
    /\ MockIdle
    /\ AgIdle
    /\ DocIdle
    /\ MemIdle
    /\ RepIdle
    /\ PivIdle

Returned(provider, op, result) ==
    [provider |-> provider, op |-> op, status |-> result.status,
     columns |-> result.columns, rows |-> result.rows, total |-> result.total]

MockProviderQuery ==
    /\ qpc = "input"
    /\ qres' = Returned("mock", "query",
                        MockQuery(qreq.selected_columns, qreq.filter_group,
                                  qreq.sort, qreq.limit, qreq.offset))
    /\ qpc' = "done"
    /\ UNCHANGED <<qreq, filterVars, gridVars, registryVars, sqlVars, mockVars, agVars, docVars, memVars, repVars, pivVars>>

SqlProviderQuery ==
    /\ qpc = "input"
    /\ \E backend \in Backends :
          qres' = Returned("sql", "query",
                           SqlQuery(qreq.selected_columns, qreq.filter_group,
                                    qreq.sort, qreq.limit, qreq.offset, backend))
    /\ qpc' = "done"
    /\ UNCHANGED <<qreq, filterVars, gridVars, registryVars, sqlVars, mockVars, agVars, docVars, memVars, repVars, pivVars>>

\* _flat_export: query(selected_columns, filter_group, limit=0, offset=0); the
\* renderer then writes one data row per row of the result.
MockFlatExport ==
    /\ qpc = "input"
    /\ qres' = Returned("mock", "export",
                        MockQuery(qreq.selected_columns, qreq.filter_group, <<>>, 0, 0))
    /\ qpc' = "done"
    /\ UNCHANGED <<qreq, filterVars, gridVars, registryVars, sqlVars, mockVars, agVars, docVars, memVars, repVars, pivVars>>

SqlFlatExport ==
    /\ qpc = "input"
    /\ \E backend \in Backends :
          qres' = Returned("sql", "export",
                           SqlQuery(qreq.selected_columns, qreq.filter_group,
                                    <<>>, 0, 0, backend))
    /\ qpc' = "done"
    /\ UNCHANGED <<qreq, filterVars, gridVars, registryVars, sqlVars, mockVars, agVars, docVars, memVars, repVars, pivVars>>

QueryNext ==
    \/ MockProviderQuery
    \/ SqlProviderQuery
    \/ MockFlatExport
    \/ SqlFlatExport

SpecQuery == QueryInit /\ [][QueryNext]_vars

(***************************************************************************)
(* Properties of the provider calls                                        *)
(***************************************************************************)
QueryDone(op) == qpc = "done" /\ qres.op = op /\ qres.status = "ok"

\* The rows the same provider returns for the same filter with limit = 0, offset = 0.
UnlimitedRows ==
    IF qres.provider = "mock"
    THEN MockQuery(qreq.selected_columns, qreq.filter_group, qreq.sort, 0, 0).rows
    ELSE SqlQuery(qreq.selected_columns, qreq.filter_group, qreq.sort, 0, 0,
                  CHOOSE b \in Backends : TRUE).rows

\* C7: for limit > 0, query returns at most limit rows and total is the number
\* of rows query returns for the same filter with limit = 0 and offset = 0.
C7_PaginationTotals ==
    (QueryDone("query") /\ qreq.limit > 0) =>
        /\ Len(qres.rows) <= qreq.limit
        /\ qres.total = Len(UnlimitedRows)

\* C8: query with limit = 0 returns every matching row from offset onwards, and
\* a flat export emits one data row per matching row, on both providers.
C8_LimitZeroReturnsAll ==
    /\ (QueryDone("query") /\ qreq.limit = 0) =>
          Len(qres.rows) = (IF qres.total > qreq.offset
                            THEN qres.total - qreq.offset ELSE 0)
    /\ QueryDone("export") => Len(qres.rows) = qres.total

\* C9: result.columns is selected_columns, and every returned row has exactly
\* the keys of selected_columns, in the order they are first named, and no other.
C9_ProjectionFidelity ==
    QueryDone("query") =>
        /\ qres.columns = qreq.selected_columns
        /\ \A i \in 1..Len(qres.rows) :
              /\ qres.rows[i].keys = Dedup(qreq.selected_columns)
              /\ DOMAIN qres.rows[i].m = Range(qreq.selected_columns)

\* C9 witness: the in-memory provider returned a row for the selection
\* [amount, region] whose stored row has no region cell.
C9_Witness ==
    /\ QueryDone("query")
    /\ qres.provider = "mock"
    /\ qreq.selected_columns = <<"amount", "region">>
    /\ \E i \in 1..Len(qres.rows) :
          /\ qres.rows[i].keys = <<"amount", "region">>
          /\ IsNone(qres.rows[i].m["region"])
          /\ ~IsNone(qres.rows[i].m["amount"])

QueryReferences ==
    Range(qreq.selected_columns)
    \cup (IF qreq.filter_group = NoFilter THEN {} ELSE FilterColumns(qreq.filter_group))
    \cup {qreq.sort[i].column : i \in 1..Len(qreq.sort)}

\* C10: a query naming a selected, filter or sort column that get_columns does
\* not list fails with ColumnNotFoundError and returns no rows.
C10_UnknownColumnRejected ==
    (qpc = "done" /\ qres.op = "query" /\ LookupFails(QueryReferences)) =>
        /\ qres.status = "ColumnNotFoundError"
        /\ qres.rows = <<>>


(***************************************************************************)
(* AG Grid filterModel translation (schemas/filters.py).  A filter spec is *)
(* a JSON object: keys is the set of keys that are present.                *)
(***************************************************************************)
AgSpec(keys, filterType, type, filter, filterTo, dateFrom, values, operator, conditions) ==
    [keys |-> keys, filterType |-> filterType, type |-> type, filter |-> filter,
     filterTo |-> filterTo, dateFrom |-> dateFrom, values |-> values,
     operator |-> operator, conditions |-> conditions]

\* spec.get(k) for the keys that hold a value.
AgGet(spec, k) ==
    IF k \notin spec.keys THEN Null
    ELSE CASE k = "filter" -> spec.filter
           [] k = "filterTo" -> spec.filterTo
           [] k = "dateFrom" -> spec.dateFrom
           [] k = "values" -> spec.values

\* Python truth value of a JSON value.
Truthy(v) ==
    CASE v.t = "null" -> FALSE
      [] v.t = "num" -> v.n # 0
      [] v.t = "str" -> v.s # ""
      [] v.t = "list" -> v.items # <<>>

\* a or b
PyOr(a, b) == IF Truthy(a) THEN a ELSE b

AG_TEXT_TYPE_MAP(ag_type) ==
    CASE ag_type = "equals" -> "eq"
      [] ag_type = "notEqual" -> "neq"
      [] ag_type = "contains" -> "contains"
      [] ag_type = "notContains" -> "contains"
      [] ag_type = "startsWith" -> "startswith"
      [] ag_type = "endsWith" -> "endswith"
      [] ag_type = "blank" -> "isNull"
      [] ag_type = "notBlank" -> "isNotNull"
      [] OTHER -> "contains"

AG_NUMBER_TYPE_MAP(ag_type) ==
    CASE ag_type = "equals" -> "eq"
      [] ag_type = "notEqual" -> "neq"
      [] ag_type = "greaterThan" -> "gt"
      [] ag_type = "greaterThanOrEqual" -> "gte"
      [] ag_type = "lessThan" -> "lt"
      [] ag_type = "lessThanOrEqual" -> "lte"
      [] ag_type = "inRange" -> "between"
      [] ag_type = "blank" -> "isNull"
      [] ag_type = "notBlank" -> "isNotNull"
      [] OTHER -> "eq"

RECURSIVE ag_filter_to_conditions(_, _)
RECURSIVE ExtendAll(_, _)
\* sub_conditions.extend(...) over the sub-specs of a combined filter.
ExtendAll(column, subs) ==
    IF subs = <<>> THEN <<>>
    ELSE ag_filter_to_conditions(column, subs[1]) \o ExtendAll(column, Tail(subs))

ag_filter_to_conditions(column, spec) ==
    LET filter_type == IF "filterType" \in spec.keys THEN spec.filterType ELSE ""
    IN IF "operator" \in spec.keys /\ "conditions" \in spec.keys
       THEN ExtendAll(column, spec.conditions)
       ELSE IF filter_type = "set"
       THEN <<Cond(column, "in",
                   IF "values" \in spec.keys THEN spec.values ELSE List(<<>>), FALSE)>>
       ELSE IF filter_type = "text"
       THEN LET ag_type == IF "type" \in spec.keys THEN spec.type ELSE "contains"
            IN <<Cond(column, AG_TEXT_TYPE_MAP(ag_type), AgGet(spec, "filter"),
                      ag_type = "notContains")>>
       ELSE IF filter_type \in {"number", "date"}
       THEN LET ag_type == IF "type" \in spec.keys THEN spec.type ELSE "equals"
                op == AG_NUMBER_TYPE_MAP(ag_type)
            IN <<Cond(column, op,
                      IF op = "between"
                      THEN List(<<AgGet(spec, "filter"), AgGet(spec, "filterTo")>>)
                      ELSE PyOr(AgGet(spec, "filter"), AgGet(spec, "dateFrom")),
                      FALSE)>>
       ELSE <<Cond(column, "eq", PyOr(AgGet(spec, "filter"), AgGet(spec, "values")), FALSE)>>

RECURSIVE ModelConditions(_)
ModelConditions(filter_model) ==
    IF filter_model = <<>> THEN <<>>
    ELSE ag_filter_to_conditions(filter_model[1].column, filter_model[1].spec)
         \o ModelConditions(Tail(filter_model))

\* filter_model is the JSON object as a sequence of entries [column, spec].
parse_ag_grid_filter_model(filter_model) ==
    IF filter_model = <<>> THEN NoFilter
    ELSE IF ModelConditions(filter_model) = <<>> THEN NoFilter
    ELSE Group("and", FALSE, ModelConditions(filter_model), <<>>)

(***************************************************************************)
(* Grid request translation (sanjaya_django/services/ssrm.py and the       *)
(* earlier sanjaya/services/pivot.py), run against the in-memory provider. *)
(***************************************************************************)
ColumnVO(id, display_name, field, agg_func) ==
    [id |-> id, display_name |-> display_name, field |-> field, agg_func |-> agg_func]

\* c.field or c.id; "" stands for an absent field.
FieldOf(c) == IF c.field # "" THEN c.field ELSE c.id

ProviderCall(op, selected_columns, group_by_rows, group_by_cols, values, filter_group, sort, limit, offset) ==
    [op |-> op, selected_columns |-> selected_columns,
     group_by_rows |-> group_by_rows, group_by_cols |-> group_by_cols,
     values |-> values, filter_group |-> filter_group, sort |-> sort,
     limit |-> limit, offset |-> offset]

\* What a handler did: the provider calls it made, the exception it raised
\* ("" for none) and the response it built.
Handled(calls, raised, row_data, row_count, pivot_result_fields) ==
    [calls |-> calls, raised |-> raised, row_data |-> row_data,
     row_count |-> row_count, pivot_result_fields |-> pivot_result_fields]

\* The user filter of a request: the rich filter when present, else the
\* translated filterModel.  request.filter holds the validated FilterGroup.
resolve_filter(request) ==
    IF request.filter # NoFilter THEN request.filter
    ELSE parse_ag_grid_filter_model(request.filter_model)

group_key_conditions(request) ==
    [i \in 1..Len(request.group_keys) |->
        Cond(FieldOf(request.row_group_cols[i]), "eq", request.group_keys[i], FALSE)]

\* The group keys merged into the user's own group, under its combinator.
inject_into_user_group(filter_group, request) ==
    IF request.group_keys = <<>> THEN filter_group
    ELSE IF filter_group # NoFilter
    THEN [filter_group EXCEPT !.conditions = @ \o group_key_conditions(request)]
    ELSE Group("and", FALSE, group_key_conditions(request), <<>>)

inject_group_keys(filter_group, request) ==
    IF request.group_keys = <<>> THEN filter_group
    ELSE LET gk_group == Group("and", FALSE, group_key_conditions(request), <<>>)
         IN IF filter_group # NoFilter
            THEN Group("and", FALSE, <<>>, <<filter_group, gk_group>>)
            ELSE gk_group

build_filter_group(request) == inject_group_keys(resolve_filter(request), request)

\* request.row_group_cols[i] raises IndexError for a key beyond the last column.
KeysOverrun(request) == Len(request.group_keys) > Len(request.row_group_cols)

all_row_group_fields(request) ==
    [i \in 1..Len(request.row_group_cols) |-> FieldOf(request.row_group_cols[i])]

resolve_row_groups(request) ==
    LET depth == Len(request.group_keys)
    IN IF depth < Len(request.row_group_cols)
       THEN <<all_row_group_fields(request)[depth + 1]>>
       ELSE <<>>

build_values(request) ==
    [i \in 1..Len(request.value_cols) |->
        [column |-> FieldOf(request.value_cols[i]),
         agg |-> IF request.value_cols[i].agg_func # ""
                 THEN request.value_cols[i].agg_func ELSE "sum",
         label |-> request.value_cols[i].display_name]]

build_sort(request) ==
    [i \in 1..Len(request.sort_model) |->
        SortSpec(request.sort_model[i].col_id,
                 IF request.sort_model[i].sort = "desc" THEN "desc" ELSE "asc")]

pagination(request) ==
    [limit |-> request.end_row - request.start_row, offset |-> request.start_row]

RECURSIVE PrependMissing(_, _)
\* for f in fields: if f not in select_cols: select_cols.insert(0, f)
PrependMissing(select_cols, fields) ==
    IF fields = <<>> THEN select_cols
    ELSE PrependMissing(IF fields[1] \in Range(select_cols) THEN select_cols
                        ELSE <<fields[1]>> \o select_cols,
                        Tail(fields))

select_columns(request) ==
    PrependMissing(IF request.value_cols # <<>>
                   THEN [i \in 1..Len(request.value_cols) |-> FieldOf(request.value_cols[i])]
                   ELSE ColumnNames,
                   all_row_group_fields(request))

RaisedBy(result) == IF result.status = "ok" THEN "" ELSE result.status

\* result = provider.query(...), and the response built from it.
QueryOutcome(call, result) ==
    Handled(<<call>>, RaisedBy(result), result.rows, result.total, <<>>)

PivotResultFields(keyed) == [i \in 1..Len(keyed) |-> keyed[i].key]

\* agg_result = provider.aggregate(...), and the response built from it.
AggregateOutcome(call, result) ==
    Handled(<<call>>, RaisedBy(result), result.rows, result.total,
            IF call.group_by_cols # <<>>
            THEN PivotResultFields(SelectSeq(result.columns,
                                             LAMBDA col : col.pivot_keys # <<>>))
            ELSE <<>>)

RunQuery(call) ==
    QueryOutcome(call, MockQuery(call.selected_columns, call.filter_group, call.sort,
                                 call.limit, call.offset))

RunAggregate(call) ==
    AggregateOutcome(call, MockAggregate(call.group_by_rows, call.group_by_cols,
                                         call.values, call.filter_group, call.sort,
                                         call.limit, call.offset))

\* The flat branch of a handler: provider.query over the selected columns.
FlatBranch(request, filter_group) ==
    RunQuery(ProviderCall("query", select_columns(request), <<>>, <<>>, <<>>,
                          filter_group, build_sort(request),
                          pagination(request).limit, pagination(request).offset))

\* The aggregate branch of a handler: provider.aggregate.
AggregateBranch(request, filter_group, group_by_rows, group_by_cols) ==
    RunAggregate(ProviderCall("aggregate", <<>>, group_by_rows, group_by_cols,
                              build_values(request), filter_group, build_sort(request),
                              pagination(request).limit, pagination(request).offset))

TableDispatch(request, filter_group, group_by_rows) ==
    IF group_by_rows = <<>> THEN FlatBranch(request, filter_group)
    ELSE AggregateBranch(request, filter_group, group_by_rows, <<>>)

handle_table_ssrm_request(request) ==
    IF KeysOverrun(request) THEN Handled(<<>>, "IndexError", <<>>, 0, <<>>)
    ELSE TableDispatch(request, build_filter_group(request), resolve_row_groups(request))

pivot_fields(request) ==
    [i \in 1..Len(request.pivot_cols) |-> FieldOf(request.pivot_cols[i])]

handle_ssrm_request(request) ==
    IF KeysOverrun(request) THEN Handled(<<>>, "IndexError", <<>>, 0, <<>>)
    ELSE AggregateBranch(request, build_filter_group(request),
                         resolve_row_groups(request), pivot_fields(request))

LegacyDispatch(request, filter_group, group_by_rows, group_by_cols) ==
    IF group_by_rows = <<>> /\ group_by_cols = <<>>
    THEN FlatBranch(request, filter_group)
    ELSE AggregateBranch(request, filter_group, group_by_rows, group_by_cols)

\* sanjaya/services/pivot.py: the filterModel is the only user filter, and the
\* pivot columns count only in pivot mode.
legacy_handle_ssrm_request(request) ==
    IF KeysOverrun(request) THEN Handled(<<>>, "IndexError", <<>>, 0, <<>>)
    ELSE LegacyDispatch(request,
                        inject_group_keys(parse_ag_grid_filter_model(request.filter_model),
                                          request),
                        resolve_row_groups(request),
                        IF request.pivot_mode /\ request.pivot_cols # <<>>
                        THEN pivot_fields(request) ELSE <<>>)

Response(endpoint, cap, status, error, h) ==
    [endpoint |-> endpoint, capabilities_pivot |-> cap, status |-> status,
     error |-> error, row_data |-> IF status = 200 THEN h.row_data ELSE <<>>,
     row_count |-> IF status = 200 THEN h.row_count ELSE 0,
     pivot_result_fields |-> IF status = 200 THEN h.pivot_result_fields ELSE <<>>]

\* The endpoint's answer to what the handler did: an exception becomes a 400.
Answer(endpoint, cap, h) ==
    [calls |-> h.calls,
     response |-> IF h.raised # "" THEN Response(endpoint, cap, 400, "error", h)
                  ELSE Response(endpoint, cap, 200, "", h)]

\* api/table.py
table(request) == Answer("table", TRUE, handle_table_ssrm_request(request))

\* api/pivot.py: the capability gate, then the handler.
pivot(request, capabilities_pivot) ==
    IF request.pivot_mode /\ ~capabilities_pivot
    THEN [calls |-> <<>>,
          response |-> Response("pivot", capabilities_pivot, 501, "not_supported",
                                Handled(<<>>, "", <<>>, 0, <<>>))]
    ELSE Answer("pivot", capabilities_pivot, handle_ssrm_request(request))

(***************************************************************************)
(* Grid specification: one request body, handled by the table endpoint,    *)
(* the pivot endpoint or the earlier handler; after a grouped table        *)
(* response the grid may expand one of the returned groups.                *)
(***************************************************************************)
RegionCol == ColumnVO("region", "Region", "region", "")
YearCol == ColumnVO("year", "Year", "", "")
AmountCol == ColumnVO("amount", "Amount", "amount", "")

GridRowGroups == {<<>>, <<RegionCol>>, <<YearCol>>, <<RegionCol, YearCol>>}
GridKeys == {<<>>} \cup SeqsUpTo({Str("N"), Str("1")}, MaxKeys)
GridValues == {<<>>, <<AmountCol>>}
GridPivots == {<<>>, <<YearCol>>, <<RegionCol>>}
GridSorts == {<<>>, <<[col_id |-> "region", sort |-> "desc"]>>}

\* year = 2 OR region = "S"
OrFilter ==
    Group("or", FALSE, <<Cond("year", "eq", Num(2), FALSE),
                         Cond("region", "eq", South, FALSE)>>, <<>>)
GridFilters == {NoFilter, OrFilter}

SetFilter(values) ==
    AgSpec({"filterType", "values"}, "set", "", Null, Null, Null, List(values), "", <<>>)
GridFilterModels == {<<>>, <<[column |-> "region", spec |-> SetFilter(<<North>>)]>>}

GridRequests ==
    {r \in [start_row : 0..MaxRow, end_row : 0..MaxRow,
            row_group_cols : GridRowGroups, group_keys : GridKeys,
            value_cols : GridValues, pivot_cols : GridPivots,
            pivot_mode : BOOLEAN, sort_model : GridSorts,
            filter : GridFilters, filter_model : GridFilterModels] :
        r.start_row <= r.end_row}

GridInit ==
    /\ greq \in GridRequests
    /\ gcalls = <<>>
    /\ gresp = NoResponse
    /\ gdrill = NoDrill
    /\ gpc = "input"
    /\ FilterIdle
    /\ QueryIdle
    /\ RegistryIdle
    /\ SqlIdle
    /\ MockIdle
    /\ AgIdle
    /\ DocIdle
    /\ MemIdle
    /\ RepIdle
    /\ PivIdle

\* The endpoint has answered: its provider calls and its response are recorded.
Answered(outcome) ==
    /\ gcalls' = outcome.calls
    /\ gresp' = outcome.response
    /\ gpc' = "done"
    /\ UNCHANGED <<greq, gdrill, filterVars, queryVars, registryVars, sqlVars, mockVars, agVars, docVars, memVars, repVars, pivVars>>

TableEndpoint ==
    /\ gpc = "input"
    /\ Answered(table(greq))

PivotEndpoint ==
    /\ gpc = "input"
    /\ \E capabilities_pivot \in BOOLEAN : Answered(pivot(greq, capabilities_pivot))

\* The outcome of the earlier handler, which has no endpoint in this tree:
\* status 0, and error names the exception it let through.
LegacyOutcome(h) ==
    [calls |-> h.calls,
     response |-> [endpoint |-> "legacy", capabilities_pivot |-> TRUE, status |-> 0,
                   error |-> h.raised, row_data |-> h.row_data,
                   row_count |-> h.row_count,
                   pivot_result_fields |-> h.pivot_result_fields]]

LegacyHandler ==
    /\ gpc = "input"
    /\ Answered(LegacyOutcome(legacy_handle_ssrm_request(greq)))

\* The dimension the rows of a grouped response are keyed by.
LevelField(request) == resolve_row_groups(request)[1]

\* The follow-up request of an expanded group with dimension value v: the
\* same request one level down, with the value as the next key (group keys
\* travel as strings) and a window wide enough for every child.
FollowUp(request, v) ==
    [request EXCEPT !.group_keys = @ \o <<Str(str(v))>>,
                    !.start_row = 0,
                    !.end_row = Len(Data) + 1]

Drilled(j, follow, outcome) ==
    gdrill' = [group_keys |-> follow.group_keys, parent |-> j,
               calls |-> outcome.calls, response |-> outcome.response]

Expand(j, follow) == Drilled(j, follow, table(follow))

\* The grid expands group j of a grouped table response.
DrillDown ==
    /\ gpc = "done"
    /\ gresp.endpoint = "table"
    /\ gresp.status = 200
    /\ gcalls[1].op = "aggregate"
    /\ \E j \in 1..Len(gresp.row_data) :
          /\ ~IsNone(Get(gresp.row_data[j], LevelField(greq)))
          /\ Expand(j, FollowUp(greq, Get(gresp.row_data[j], LevelField(greq))))
    /\ gpc' = "drilled"
    /\ UNCHANGED <<greq, gcalls, gresp, filterVars, queryVars, registryVars, sqlVars, mockVars, agVars, docVars, memVars, repVars, pivVars>>

GridNext ==
    \/ TableEndpoint
    \/ PivotEndpoint
    \/ LegacyHandler
    \/ DrillDown

SpecGrid == GridInit /\ [][GridNext]_vars

(***************************************************************************)
(* Properties of the grid request translation                              *)
(***************************************************************************)
GridDone == gpc \in {"done", "drilled"}

AggregateCalls == SelectSeq(gcalls, LAMBDA c : c.op = "aggregate")
QueryCalls == SelectSeq(gcalls, LAMBDA c : c.op = "query")

\* C2: a pivot-endpoint request with non-empty pivot columns against a dataset
\* whose capabilities.pivot is false is answered 501 not_supported, and
\* provider.aggregate is not called for it, whatever pivot_mode says.
C2_PivotRejectedWithoutCapability ==
    (/\ GridDone
     /\ gresp.endpoint = "pivot"
     /\ greq.pivot_cols # <<>>
     /\ ~gresp.capabilities_pivot)
    => (/\ gresp.status = 501
        /\ gresp.error = "not_supported"
        /\ AggregateCalls = <<>>)

\* C3: with depth = len(group_keys) and R = len(row_group_cols), every handled
\* request makes exactly one provider call: without pivot columns a query (and
\* no aggregate) when depth = R, and an aggregate with
\* group_by_rows = [row_group_cols[depth].field] and group_by_cols = [] when
\* depth < R; with pivot columns an aggregate whose group_by_cols are the
\* pivot fields.
C3_DispatchRule ==
    (/\ GridDone
     /\ ~(gresp.endpoint = "pivot" /\ gresp.status = 501))
    => (/\ Len(gcalls) = 1
        /\ (greq.pivot_cols = <<>> /\ Len(greq.group_keys) = Len(greq.row_group_cols))
              => gcalls[1].op = "query"
        /\ (greq.pivot_cols = <<>> /\ Len(greq.group_keys) < Len(greq.row_group_cols))
              => (/\ gcalls[1].op = "aggregate"
                  /\ gcalls[1].group_by_rows
                        = <<FieldOf(greq.row_group_cols[Len(greq.group_keys) + 1])>>
                  /\ gcalls[1].group_by_cols = <<>>)
        /\ greq.pivot_cols # <<>>
              => (/\ gcalls[1].op = "aggregate"
                  /\ gcalls[1].group_by_cols = pivot_fields(greq)))

\* The user filter the handler that answered resolves for the request.
UserFilter ==
    IF gresp.endpoint = "legacy" THEN parse_ag_grid_filter_model(greq.filter_model)
    ELSE resolve_filter(greq)

Accepts(filter_group, row) ==
    filter_group = NoFilter \/ FilterGroup_evaluate(filter_group, row)

KeysHold(row) ==
    \A i \in 1..Len(greq.group_keys) :
        Get(row, FieldOf(greq.row_group_cols[i])) = greq.group_keys[i]

\* C4: for a request with len(group_keys) <= len(row_group_cols), a row passes
\* the filter handed to the provider exactly when it passes the resolved user
\* filter (if there is one) and equals group_keys[i] in row group column i for
\* every injected key, also when the user filter's top combinator is OR.
C4_GroupKeysAndCombined ==
    (GridDone /\ Len(gcalls) = 1)
    => \A i \in 1..Len(Data) :
          Accepts(gcalls[1].filter_group, Data[i])
          <=> (Accepts(UserFilter, Data[i]) /\ KeysHold(Data[i]))

C4_Witness ==
    /\ gpc = "done"
    /\ gresp.endpoint = "table"
    /\ Len(gcalls) = 1
    /\ greq.filter = OrFilter
    /\ greq.group_keys # <<>>
    /\ \E i \in 1..Len(Data) :
          /\ Accepts(UserFilter, Data[i])
          /\ ~KeysHold(Data[i])
          /\ ~Accepts(gcalls[1].filter_group, Data[i])
    /\ \E i \in 1..Len(Data) : Accepts(gcalls[1].filter_group, Data[i])

\* The key under which the rows of the follow-up response carry the measure.
MeasureKey(response_calls, vs) ==
    IF response_calls[1].op = "aggregate" THEN AggKey(vs) ELSE vs.column

ChildSum(rows, key) ==
    LET cells == [i \in 1..Len(rows) |-> Get(rows[i], key)]
        non_null == SelectSeq(cells, LAMBDA v : ~IsNone(v))
    IN IF non_null = <<>> THEN Null ELSE Num(SumVals(non_null))

\* C5: when a group returned at depth k is expanded, the SUM measure summed
\* over the rows of the follow-up response at depth k+1 equals the measure in
\* the group's own row, whatever the type of the dimension.
C5_DrillDownSumConsistent ==
    gpc = "drilled"
    => \A n \in 1..Len(gcalls[1].values) :
          LET vs == gcalls[1].values[n]
          IN vs.agg = "sum"
             => (/\ gdrill.response.status = 200
                 /\ ChildSum(gdrill.response.row_data, MeasureKey(gdrill.calls, vs))
                       = Get(gresp.row_data[gdrill.parent], AggKey(vs)))

\* C6: for 0 <= start_row <= end_row the provider is called with
\* limit = end_row - start_row and offset = start_row, and row_data holds at
\* most end_row - start_row rows, also when start_row = end_row.
C6_WindowHalfOpen ==
    (GridDone /\ greq.start_row <= greq.end_row)
    => (/\ \A n \in 1..Len(gcalls) :
              /\ gcalls[n].limit = greq.end_row - greq.start_row
              /\ gcalls[n].offset = greq.start_row
        /\ Len(gresp.row_data) <= greq.end_row - greq.start_row)

(***************************************************************************)
(* Provider registry (sanjaya/registry.py).  registry.providers is the     *)
(* eager dict and registry.lazy the dict of factories, both in insertion   *)
(* order; a factory is named by the key it was registered under.  Request  *)
(* threads run get, all_providers and list_keys one dict operation at a    *)
(* time.                                                                   *)
(***************************************************************************)
FactoryKeys == {"lazy", "alias"}
LookupKeys == {"ds1", "lazy", "alias", "nope"}

\* provider.key of the provider a factory builds: the factory registered as
\* "alias" builds the provider whose own key is "real".
BuiltKey(k) == IF k = "alias" THEN "real" ELSE k

Provider(key, id) == [key |-> key, id |-> id]
NoProvider == Provider("", 0)

KeysOf(entries) == {entries[i].key : i \in 1..Len(entries)}

\* dataset_key in self._providers / self._providers[dataset_key]
InProviders(reg, k) == k \in KeysOf(reg.providers)
ProviderAt(reg, k) ==
    reg.providers[CHOOSE i \in 1..Len(reg.providers) : reg.providers[i].key = k]

\* A registry whose get forgets the provider it has just built.
DropProvider(providers, p) == providers

\* self._providers[provider.key] = provider
SetProvider(providers, p) ==
    IF p.key \in KeysOf(providers)
    THEN [i \in 1..Len(providers) |->
            IF providers[i].key = p.key THEN p ELSE providers[i]]
    ELSE Append(providers, p)

InLazy(reg, k) == k \in Range(reg.lazy)

\* self._lazy.pop(dataset_key)
PopLazy(lazy, k) == SelectSeq(lazy, LAMBDA x : x # k)

RECURSIVE SortedStrings(_)
\* sorted(...) of a set of strings
SortedStrings(S) ==
    IF S = {} THEN <<>>
    ELSE LET least == CHOOSE x \in S : \A y \in S : ~StrLess(y, x)
         IN <<least>> \o SortedStrings(S \ {least})

\* sorted(set(self._providers) | set(self._lazy)), both read at once.
list_keys(reg) == SortedStrings(KeysOf(reg.providers) \cup Range(reg.lazy))

IdleRequest ==
    [pc |-> "idle", op |-> "", key |-> "", pending |-> <<>>, built |-> NoProvider,
     seen |-> {}, before |-> <<>>]

Started(op, key, before) ==
    [pc |-> CASE op = "get" -> "check_eager"
              [] op = "all_providers" -> "snapshot"
              [] op = "list_keys" -> "list_eager"
              [] op = "list_providers" -> "collect",
     op |-> op, key |-> key, pending |-> <<>>, built |-> NoProvider,
     seen |-> {}, before |-> before]

ActiveRequests == {t \in DOMAIN requests : requests[t].pc # "idle"}

RegistryInputs ==
    {[providers |-> providers, lazy |-> lazy, calls |-> [k \in FactoryKeys |-> 0],
      flaky |-> flaky, startup |-> KeysOf(providers) \cup Range(lazy)] :
        providers \in {<<>>, <<Provider("ds1", 0)>>},
        lazy \in {<<>>, <<"lazy">>, <<"alias">>, <<"lazy", "alias">>, <<"alias", "lazy">>},
        flaky \in SUBSET FactoryKeys}

RegistryInit ==
    /\ registry \in {r \in RegistryInputs : r.flaky \subseteq Range(r.lazy)}
    /\ requests = [t \in 1..MaxRequests |-> IdleRequest]
    /\ rlog = <<>>
    /\ FilterIdle
    /\ QueryIdle
    /\ GridIdle
    /\ SqlIdle
    /\ MockIdle
    /\ AgIdle
    /\ DocIdle
    /\ MemIdle
    /\ RepIdle
    /\ PivIdle

\* A call of thread t ends: it returned result or raised outcome.
Ended(t, reg, outcome, result) ==
    /\ registry' = reg
    /\ rlog' = Append(rlog, [thread |-> t, op |-> requests[t].op,
                             key |-> requests[t].key, outcome |-> outcome,
                             result |-> result, before |-> requests[t].before,
                             after |-> list_keys(reg)])
    /\ requests' = [requests EXCEPT ![t] = IdleRequest]

\* self.get(key) of thread t ends with outcome: the end of a get call, or one
\* turn of the loop of all_providers.
GetEnded(t, reg, outcome, provider) ==
    IF requests[t].op = "get" \/ outcome # "ok"
    THEN Ended(t, reg, outcome, IF outcome = "ok" THEN <<provider>> ELSE <<>>)
    ELSE /\ registry' = reg
         /\ rlog' = rlog
         /\ requests' = [requests EXCEPT
                ![t].pending = Tail(@),
                ![t].key = IF Len(requests[t].pending) > 1
                           THEN requests[t].pending[2] ELSE "",
                ![t].pc = IF Len(requests[t].pending) > 1
                          THEN "check_eager" ELSE "collect"]

Budget == Len(rlog) + Cardinality(ActiveRequests) < MaxCalls

Begin(t) ==
    /\ requests[t].pc = "idle"
    /\ Budget
    /\ \E op \in {"get", "all_providers", "list_keys"} :
          \E k \in (IF op = "get" THEN LookupKeys ELSE {""}) :
              requests' = [requests EXCEPT ![t] = Started(op, k, list_keys(registry))]
    /\ UNCHANGED <<registry, rlog>>

\* One request at a time: a call starts when no other call is in progress.
SerialRequest ==
    /\ ActiveRequests = {}
    /\ Begin(1)
    /\ UNCHANGED <<filterVars, queryVars, gridVars, sqlVars, mockVars, agVars, docVars, memVars, repVars, pivVars>>

\* Requests arrive on any thread while other calls are in progress.
ConcurrentRequest ==
    /\ \E t \in DOMAIN requests : Begin(t)
    /\ UNCHANGED <<filterVars, queryVars, gridVars, sqlVars, mockVars, agVars, docVars, memVars, repVars, pivVars>>

\* if dataset_key in self._providers: return self._providers[dataset_key]
CheckEager ==
    /\ \E t \in DOMAIN requests :
          /\ requests[t].pc = "check_eager"
          /\ IF InProviders(registry, requests[t].key)
             THEN GetEnded(t, registry, "ok", ProviderAt(registry, requests[t].key))
             ELSE /\ requests' = [requests EXCEPT ![t].pc = "check_lazy"]
                  /\ UNCHANGED <<registry, rlog>>
    /\ UNCHANGED <<filterVars, queryVars, gridVars, sqlVars, mockVars, agVars, docVars, memVars, repVars, pivVars>>

\* if dataset_key in self._lazy: ... else raise DatasetNotFoundError
CheckLazy ==
    /\ \E t \in DOMAIN requests :
          /\ requests[t].pc = "check_lazy"
          /\ IF InLazy(registry, requests[t].key)
             THEN /\ requests' = [requests EXCEPT ![t].pc = "pop"]
                  /\ UNCHANGED <<registry, rlog>>
             ELSE GetEnded(t, registry, "DatasetNotFoundError", NoProvider)
    /\ UNCHANGED <<filterVars, queryVars, gridVars, sqlVars, mockVars, agVars, docVars, memVars, repVars, pivVars>>

\* factory = self._lazy.pop(dataset_key): KeyError when the key is gone.
PopFactory ==
    /\ \E t \in DOMAIN requests :
          /\ requests[t].pc = "pop"
          /\ IF InLazy(registry, requests[t].key)
             THEN /\ registry' = [registry EXCEPT !.lazy = PopLazy(@, requests[t].key)]
                  /\ requests' = [requests EXCEPT ![t].pc = "call"]
                  /\ rlog' = rlog
             ELSE GetEnded(t, registry, "KeyError", NoProvider)
    /\ UNCHANGED <<filterVars, queryVars, gridVars, sqlVars, mockVars, agVars, docVars, memVars, repVars, pivVars>>

\* The number of factory calls made so far.
Made(reg) == reg.calls["lazy"] + reg.calls["alias"]

Called(reg, k) == [reg EXCEPT !.calls[k] = @ + 1]

\* provider = factory(): a new provider, or the factory's exception.
CallFactory ==
    /\ \E t \in DOMAIN requests :
          /\ requests[t].pc = "call"
          /\ \/ /\ requests' = [requests EXCEPT
                        ![t].built = Provider(BuiltKey(requests[t].key),
                                              Made(registry) + 1),
                        ![t].pc = "store"]
                /\ registry' = Called(registry, requests[t].key)
                /\ rlog' = rlog
             \/ /\ requests[t].key \in registry.flaky
                /\ GetEnded(t, Called(registry, requests[t].key), "FactoryError",
                            NoProvider)
    /\ UNCHANGED <<filterVars, queryVars, gridVars, sqlVars, mockVars, agVars, docVars, memVars, repVars, pivVars>>

\* self._providers[provider.key] = provider; return provider
StoreProvider ==
    /\ \E t \in DOMAIN requests :
          /\ requests[t].pc = "store"
          /\ GetEnded(t, [registry EXCEPT
                             !.providers = SetProvider(@, requests[t].built)],
                      "ok", requests[t].built)
    /\ UNCHANGED <<filterVars, queryVars, gridVars, sqlVars, mockVars, agVars, docVars, memVars, repVars, pivVars>>

\* for key in list(self._lazy): the keys are copied before the loop.
SnapshotLazy ==
    /\ \E t \in DOMAIN requests :
          /\ requests[t].pc = "snapshot"
          /\ requests' = [requests EXCEPT
                ![t].pending = registry.lazy,
                ![t].key = IF registry.lazy # <<>> THEN registry.lazy[1] ELSE "",
                ![t].pc = IF registry.lazy # <<>> THEN "check_eager" ELSE "collect"]
    /\ UNCHANGED <<registry, rlog, filterVars, queryVars, gridVars, sqlVars, mockVars, agVars, docVars, memVars, repVars, pivVars>>

\* return list(self._providers.values())
CollectProviders ==
    /\ \E t \in DOMAIN requests :
          /\ requests[t].pc = "collect"
          /\ Ended(t, registry, "ok", registry.providers)
    /\ UNCHANGED <<filterVars, queryVars, gridVars, sqlVars, mockVars, agVars, docVars, memVars, repVars, pivVars>>

\* list_keys reads set(self._providers) ...
ListEager ==
    /\ \E t \in DOMAIN requests :
          /\ requests[t].pc = "list_eager"
          /\ requests' = [requests EXCEPT ![t].seen = KeysOf(registry.providers),
                                          ![t].pc = "list_lazy"]
    /\ UNCHANGED <<registry, rlog, filterVars, queryVars, gridVars, sqlVars, mockVars, agVars, docVars, memVars, repVars, pivVars>>

\* ... and then set(self._lazy), and returns the sorted union.
ListLazy ==
    /\ \E t \in DOMAIN requests :
          /\ requests[t].pc = "list_lazy"
          /\ Ended(t, registry, "ok",
                   SortedStrings(requests[t].seen \cup Range(registry.lazy)))
    /\ UNCHANGED <<filterVars, queryVars, gridVars, sqlVars, mockVars, agVars, docVars, memVars, repVars, pivVars>>

RegistrySteps ==
    \/ CheckEager
    \/ CheckLazy
    \/ PopFactory
    \/ CallFactory
    \/ StoreProvider
    \/ SnapshotLazy
    \/ CollectProviders
    \/ ListEager
    \/ ListLazy

SerialNext == SerialRequest \/ RegistrySteps

ConcurrentNext == ConcurrentRequest \/ RegistrySteps

SpecRegistry == RegistryInit /\ [][SerialNext]_vars

SpecRegistryConcurrent == RegistryInit /\ [][ConcurrentNext]_vars

(***************************************************************************)
(* Properties of the registry.                                             *)
(***************************************************************************)
Gets(k) == {i \in 1..Len(rlog) : rlog[i].op = "get" /\ rlog[i].key = k}

Materialisations == {i \in 1..Len(rlog) : rlog[i].op = "all_providers"}

\* A get(k) or an all_providers() has been started.
Accessed(k) ==
    \/ Gets(k) # {}
    \/ Materialisations # {}
    \/ \E t \in ActiveRequests :
          \/ requests[t].op = "get" /\ requests[t].key = k
          \/ requests[t].op = "all_providers"

\* The factory registered under k is called by nothing but a get(k) or an
\* all_providers(), and once at most; once a get(k) or an all_providers()
\* over k has returned, every later get(k) returns that same instance.
MaterialisedOnce(k) ==
    /\ registry.calls[k] > 0 => Accessed(k)
    /\ registry.calls[k] <= 1
    /\ \A i \in Gets(k) : \A j \in Gets(k) :
          (i < j /\ rlog[i].outcome = "ok")
              => rlog[j].outcome = "ok" /\ rlog[j].result = rlog[i].result
    /\ \A i \in Materialisations : \A j \in Gets(k) :
          (i < j /\ rlog[i].outcome = "ok" /\ k \in Range(rlog[i].before))
              => rlog[j].outcome = "ok" /\ rlog[j].result[1] \in Range(rlog[i].result)
    /\ (\E i \in Gets(k) : rlog[i].outcome = "ok")
          => InProviders(registry, k) /\ ~InLazy(registry, k)

C12_ConcurrentLookups ==
    \A k \in registry.startup :
        (BuiltKey(k) = k /\ k \notin registry.flaky) =>
            /\ k \in FactoryKeys => registry.calls[k] <= 1
            /\ \A i \in Gets(k) : rlog[i].outcome = "ok"
            /\ \A i \in Gets(k) : \A j \in Gets(k) : rlog[i].result = rlog[j].result

\* C13: a lookup that raised left list_keys() as it was, and a get of a
\* lazily registered key that follows a failed get or all_providers does not
\* raise DatasetNotFoundError.
C13_FailedLookupLeavesRegistry ==
    /\ \A i \in 1..Len(rlog) : rlog[i].outcome # "ok" => rlog[i].after = rlog[i].before
    /\ \A k \in registry.startup \cap FactoryKeys : \A i \in 1..Len(rlog) :
          \A j \in Gets(k) :
              (i < j /\ rlog[i].outcome = "FactoryError" /\ BuiltKey(k) = k)
                  => rlog[j].outcome # "DatasetNotFoundError"


(***************************************************************************)
(* Lookup specification: the serial registry specification, with           *)
(* list_providers among the calls and with registries in which the key     *)
(* "lazy" is registered both by add and by add_lazy.                       *)
(***************************************************************************)
ShadowedInputs ==
    {[providers |-> <<Provider("lazy", 0)>>, lazy |-> lazy,
      calls |-> [k \in FactoryKeys |-> 0], flaky |-> {},
      startup |-> Range(lazy)] : lazy \in {<<"lazy">>, <<"alias", "lazy">>}}

LookupInit ==
    /\ registry \in {r \in RegistryInputs : r.flaky \subseteq Range(r.lazy)}
                    \cup ShadowedInputs
    /\ requests = [t \in 1..MaxRequests |-> IdleRequest]
    /\ rlog = <<>>
    /\ FilterIdle
    /\ QueryIdle
    /\ GridIdle
    /\ SqlIdle
    /\ MockIdle
    /\ AgIdle
    /\ DocIdle
    /\ MemIdle
    /\ RepIdle
    /\ PivIdle

\* list_providers(): return list(self._providers.values())
ListProvidersRequest ==
    /\ ActiveRequests = {}
    /\ Budget
    /\ requests' = [requests EXCEPT ![1] = Started("list_providers", "",
                                                   list_keys(registry))]
    /\ UNCHANGED <<registry, rlog>>
    /\ UNCHANGED <<filterVars, queryVars, gridVars, sqlVars, mockVars, agVars, docVars, memVars, repVars, pivVars>>

LookupNext == SerialRequest \/ ListProvidersRequest \/ RegistrySteps

SpecLookup == LookupInit /\ [][LookupNext]_vars

\* C26: no get, list_keys, list_providers or all_providers call changes what
\* list_keys() returns, and once get(k) has returned a provider for a key k
\* registered at startup, every later get(k) returns that same instance.
C26_LookupsLeaveRegistry ==
    /\ \A i \in 1..Len(rlog) : rlog[i].after = rlog[i].before
    /\ \A k \in registry.startup : \A i \in Gets(k) : \A j \in Gets(k) :
          (i < j /\ rlog[i].outcome = "ok")
              => rlog[j].outcome = "ok" /\ rlog[j].result = rlog[i].result

(***************************************************************************)
(* SQL provider, from construction on (sanjaya_sqlalchemy/provider.py).    *)
(* sql.engine and sql.selectable say what the constructor was given: the   *)
(* object itself or a factory for it.  sql.made counts the invocations of  *)
(* the factories.  Each entry of sql.log is one call with its arguments,   *)
(* the exception it raised, the statements it executed, the ORDER BY of    *)
(* its data statement and the column descriptors (and, for query, the      *)
(* rows) it returned.                                                      *)
(***************************************************************************)
ValueSpec(c, agg) == [column |-> c, agg |-> agg, label |-> ""]

SqlArgs(selected_columns, group_by_rows, group_by_cols, values, filter_group, sort, limit, offset)  ==
    [selected_columns |-> selected_columns, group_by_rows |-> group_by_rows,
     group_by_cols |-> group_by_cols, values |-> values, filter_group |-> filter_group,
     sort |-> sort, limit |-> limit, offset |-> offset]

\* self._column_lookup[name] raises KeyError for a name outside columns.
SqlLookupFails(columns, names) == names \ Range(columns) # {}

ColumnsOfFilter(g) == IF g = NoFilter THEN {} ELSE FilterColumns(g)
ColumnsOfSort(sort) == {sort[i].column : i \in 1..Len(sort)}
ColumnsOfValues(values) == {values[i].column : i \in 1..Len(values)}

Raised(status, executed) ==
    [status |-> status, executed |-> executed, order_by |-> <<>>, columns |-> <<>>,
     rows |-> <<>>, total |-> 0]

\* query: both statements are built, with every column looked up, before the
\* engine is used; the data statement has the ORDER BY of _apply_sort.
SqlRunQuery(p, a, backend) ==
    IF p.selectable = "factory" THEN Raised("ArgumentError", <<>>)
    ELSE IF SqlLookupFails(p.columns, ColumnsOfFilter(a.filter_group)
                                      \cup Range(a.selected_columns)
                                      \cup ColumnsOfSort(a.sort))
    THEN Raised("KeyError", <<>>)
    ELSE IF p.engine = "factory" THEN Raised("AttributeError", <<>>)
    ELSE [status |-> "ok", executed |-> <<"count", "data">>, order_by |-> a.sort,
          columns |-> a.selected_columns,
          rows |-> SqlQuery(a.selected_columns, a.filter_group, a.sort,
                            a.limit, a.offset, backend).rows,
          total |-> Cardinality(SqlWhere(IF a.filter_group = NoFilter THEN [k |-> "lit"]
                                         ELSE compile_filter_group(a.filter_group)))]

Aggregated(executed, order_by, columns) ==
    [status |-> "ok", executed |-> executed, order_by |-> order_by, columns |-> columns]

\* _simple_aggregate
SqlSimpleAggregate(p, a) ==
    IF SqlLookupFails(p.columns, Range(a.group_by_rows) \cup ColumnsOfValues(a.values))
    THEN Raised("KeyError", <<>>)
    ELSE IF p.selectable = "factory" THEN Raised("ArgumentError", <<>>)
    ELSE IF SqlLookupFails(p.columns, ColumnsOfFilter(a.filter_group)
                                      \cup ColumnsOfSort(a.sort))
    THEN Raised("KeyError", <<>>)
    ELSE IF p.engine = "factory" THEN Raised("AttributeError", <<>>)
    ELSE Aggregated(<<"count", "data">>, a.sort,
                    DimColumns(a.group_by_rows)
                    \o [i \in 1..Len(a.values) |-> ValueColumn(a.values[i])])

\* a comes before b in ORDER BY <pivot columns> ascending.
RECURSIVE SqlTupleBefore(_, _, _)
SqlTupleBefore(a, b, nulls_last) ==
    IF a = <<>> THEN FALSE
    ELSE IF a[1] = b[1] THEN SqlTupleBefore(Tail(a), Tail(b), nulls_last)
    ELSE SqlKeyLess(a[1], b[1], nulls_last)

RECURSIVE SqlSortedTuples(_, _)
SqlSortedTuples(S, nulls_last) ==
    IF S = {} THEN <<>>
    ELSE LET least == CHOOSE x \in S : \A y \in S : ~SqlTupleBefore(y, x, nulls_last)
         IN <<least>> \o SqlSortedTuples(S \ {least}, nulls_last)

\* Pass 1: SELECT DISTINCT <pivot columns> ... WHERE ... ORDER BY <pivot columns>
SqlCombos(a, backend) ==
    SqlSortedTuples({GroupKey(Data[i], a.group_by_cols) :
                        i \in SqlWhere(IF a.filter_group = NoFilter THEN [k |-> "lit"]
                                       ELSE compile_filter_group(a.filter_group))},
                    backend.nulls_last)

\* _pivot_aggregate after pass 1 has returned combos.
SqlPivotSecondPass(p, a, combos) ==
    IF \/ SqlLookupFails(p.columns, Range(a.group_by_rows))
       \/ combos # <<>> /\ SqlLookupFails(p.columns, ColumnsOfValues(a.values))
       \/ SqlLookupFails(p.columns, ColumnsOfSort(a.sort))
    THEN Raised("KeyError", <<"combos">>)
    ELSE Aggregated(<<"combos", "count", "data">>, a.sort,
                    DimColumns(a.group_by_rows) \o PivotColumns(combos, a.values))

\* _pivot_aggregate
SqlPivotAggregate(p, a, backend) ==
    IF SqlLookupFails(p.columns, ColumnsOfFilter(a.filter_group) \cup Range(a.group_by_cols))
    THEN Raised("KeyError", <<>>)
    ELSE IF p.selectable = "factory" THEN Raised("ArgumentError", <<>>)
    ELSE IF p.engine = "factory" THEN Raised("AttributeError", <<>>)
    ELSE SqlPivotSecondPass(p, a, SqlCombos(a, backend))

\* aggregate
SqlRunAggregate(p, a, backend) ==
    IF a.group_by_cols # <<>> THEN SqlPivotAggregate(p, a, backend)
    ELSE SqlSimpleAggregate(p, a)

BogusFilter == Group("and", FALSE, <<Cond("bogus", "eq", North, FALSE)>>, <<>>)
NoMatchFilter == Group("and", FALSE, <<Cond("region", "eq", Str("W"), FALSE)>>, <<>>)

SqlQueryInputs ==
    {SqlArgs(selected_columns, <<>>, <<>>, <<>>, filter_group, sort, 2, offset) :
        selected_columns \in {<<"region", "year">>, <<"bogus">>},
        filter_group \in {NoFilter, BogusFilter},
        sort \in {<<>>, <<SortSpec("year", "asc"), SortSpec("region", "asc")>>},
        offset \in {0, 2}}

SqlAggregateInputs ==
    {SqlArgs(<<>>, group_by_rows, group_by_cols, values, filter_group, sort, 2, 0) :
        group_by_rows \in {<<>>, <<"region">>, <<"bogus">>},
        group_by_cols \in {<<>>, <<"year">>, <<"region">>, <<"bogus">>},
        values \in {<<ValueSpec("amount", "sum")>>, <<ValueSpec("bogus", "sum")>>,
                    <<ValueSpec("amount", "sum"), ValueSpec("amount", "count")>>},
        filter_group \in {NoFilter, NoMatchFilter},
        sort \in {<<>>, <<SortSpec("bogus", "asc")>>}}

SqlInit ==
    /\ sql \in [pc : {"new"}, engine : {"engine", "factory"},
                selectable : {"table", "select", "factory"},
                columns : {<<>>, ColumnNames},
                made : {[engine |-> 0, selectable |-> 0]}, log : {<<>>}]
    /\ FilterIdle
    /\ QueryIdle
    /\ GridIdle
    /\ RegistryIdle
    /\ MockIdle
    /\ AgIdle
    /\ DocIdle
    /\ MemIdle
    /\ RepIdle
    /\ PivIdle

\* __init__: the engine is stored as given; a select is wrapped as a
\* subquery; the column lookup reads selectable.c for each column.
SqlConstruct ==
    /\ sql.pc = "new"
    /\ sql' = [sql EXCEPT !.pc = IF sql.selectable = "factory" /\ sql.columns # <<>>
                                 THEN "failed" ELSE "ready"]
    /\ UNCHANGED <<filterVars, queryVars, gridVars, registryVars, mockVars, agVars, docVars, memVars, repVars, pivVars>>

SqlReady == sql.pc = "ready" /\ Len(sql.log) < MaxSqlCalls

Logged(op, a, outcome) ==
    [sql EXCEPT !.log = Append(@, [op |-> op, args |-> a, result |-> outcome])]

\* get_columns: return list(self._columns)
SqlGetColumns ==
    /\ SqlReady
    /\ sql' = Logged("get_columns", SqlArgs(<<>>, <<>>, <<>>, <<>>, NoFilter, <<>>, 0, 0),
                     [status |-> "ok", executed |-> <<>>, order_by |-> <<>>,
                      columns |-> sql.columns])
    /\ UNCHANGED <<filterVars, queryVars, gridVars, registryVars, mockVars, agVars, docVars, memVars, repVars, pivVars>>

SqlProviderCallQuery ==
    /\ SqlReady
    /\ \E a \in SqlQueryInputs, backend \in Backends :
          sql' = Logged("query", a, SqlRunQuery(sql, a, backend))
    /\ UNCHANGED <<filterVars, queryVars, gridVars, registryVars, mockVars, agVars, docVars, memVars, repVars, pivVars>>

SqlProviderCallAggregate ==
    /\ SqlReady
    /\ \E a \in SqlAggregateInputs, backend \in Backends :
          sql' = Logged("aggregate", a, SqlRunAggregate(sql, a, backend))
    /\ UNCHANGED <<filterVars, queryVars, gridVars, registryVars, mockVars, agVars, docVars, memVars, repVars, pivVars>>

SqlNext ==
    \/ SqlConstruct
    \/ SqlGetColumns
    \/ SqlProviderCallQuery
    \/ SqlProviderCallAggregate

SpecSql == SqlInit /\ [][SqlNext]_vars

(***************************************************************************)
(* Properties of the SQL provider.                                         *)
(***************************************************************************)
SqlCalls(ops) == {i \in 1..Len(sql.log) : sql.log[i].op \in ops}

\* The calls that got as far as using the engine.
ReachedEngine ==
    {i \in SqlCalls({"query", "aggregate"}) :
        sql.log[i].result.status \notin {"KeyError", "ArgumentError"}}

\* C14: a provider constructed with an engine factory invokes no factory
\* while it is constructed, invokes the engine factory when a call first
\* needs the engine, and never a second time; the calls that need the engine
\* get it.
C14_EngineFactoryOnce ==
    sql.engine = "factory" =>
        /\ sql.made.engine <= 1
        /\ (sql.pc = "new" \/ sql.log = <<>>)
              => sql.made.engine = 0 /\ sql.made.selectable = 0
        /\ ReachedEngine # {}
              => sql.made.engine = 1
                 /\ \A i \in ReachedEngine : sql.log[i].result.status = "ok"

\* The rows of the table differ on the selected columns.
TellsRowsApart(selected_columns) ==
    Cardinality(Range(project(Data, selected_columns))) = Len(Data)

\* C15: a query with no sort and offset > 0 has an ORDER BY on its data
\* statement, and two pages of the same query at offsets a page apart share
\* no row.
C15_UnsortedPagesDisjoint ==
    \A i \in SqlCalls({"query"}) :
        (sql.log[i].result.status = "ok" /\ sql.log[i].args.sort = <<>>
         /\ sql.log[i].args.offset > 0)
            => /\ sql.log[i].result.order_by # <<>>
               /\ \A j \in SqlCalls({"query"}) :
                     (/\ sql.log[j].result.status = "ok"
                      /\ sql.log[j].args = [sql.log[i].args EXCEPT !.offset = 0]
                      /\ sql.log[i].args.offset >= sql.log[i].args.limit
                      /\ TellsRowsApart(sql.log[i].args.selected_columns))
                         => Range(sql.log[i].result.rows)
                            \cap Range(sql.log[j].result.rows) = {}

\* The columns a call names.
SqlReferences(a) ==
    Range(a.selected_columns) \cup Range(a.group_by_rows) \cup Range(a.group_by_cols)
    \cup ColumnsOfValues(a.values) \cup ColumnsOfSort(a.sort)
    \cup ColumnsOfFilter(a.filter_group)

\* C16: a query or aggregate call that names a column the provider does not
\* have raises, and has executed no statement by then.
C16_MissingColumnBeforeExecution ==
    \A i \in SqlCalls({"query", "aggregate"}) :
        SqlLookupFails(sql.columns, SqlReferences(sql.log[i].args))
            => /\ sql.log[i].result.status # "ok"
               /\ sql.log[i].result.executed = <<>>

(***************************************************************************)
(* Properties of the grid translation's error handling.                    *)
(***************************************************************************)
\* The exception a handler raised in its own code, before any provider call.
TranslatorRaised(h) == IF h.calls = <<>> THEN h.raised ELSE ""

TranslatorErrors == {"", "filter_validation_error", "not_supported"}

\* C17: whatever the lengths of group_keys and row_group_cols and whatever
\* the filter_model, a handler that has run either called the provider or
\* raised nothing but filter_validation_error or not_supported.
C17_TranslatorErrorsOnly ==
    gpc = "done" =>
        CASE gresp.endpoint = "table" ->
                TranslatorRaised(handle_table_ssrm_request(greq)) \in TranslatorErrors
          [] gresp.endpoint = "pivot" /\ gresp.status # 501 ->
                TranslatorRaised(handle_ssrm_request(greq)) \in TranslatorErrors
          [] gresp.endpoint = "legacy" ->
                (gcalls = <<>> => gresp.error \in TranslatorErrors)
          [] OTHER -> TRUE

\* The filter a request asks for when the rich filter has precedence.
PrecedenceFilter ==
    IF greq.filter # NoFilter THEN greq.filter
    ELSE parse_ag_grid_filter_model(greq.filter_model)

\* C21: when a request carries both a rich filter and a filter_model, the
\* rows the provider is asked for are those of the rich filter (and of the
\* injected group keys); the filter_model decides them only when the rich
\* filter is absent.
C21_RichFilterWins ==
    (gpc = "done" /\ gcalls # <<>>)
    => \A i \in 1..Len(Data) :
          Accepts(gcalls[1].filter_group, Data[i])
          <=> (Accepts(PrecedenceFilter, Data[i]) /\ KeysHold(Data[i]))

(***************************************************************************)
(* The in-memory provider and its callers as objects (sanjaya_core/mock.py)*)
(* mock.heap holds every dict and list in existence, an object's identity  *)
(* being its index: the provider's stored rows (mock.data) and column list *)
(* (mock.columns), and the rows and lists returned to callers.  A caller   *)
(* may change any object it was handed.                                    *)
(***************************************************************************)
DictObject(d) == [kind |-> "dict", v |-> d]
ListObject(q) == [kind |-> "list", v |-> q]

\* self._data as the provider reads it now.
Stored(m) == [i \in 1..Len(m.data) |-> m.heap[m.data[i]].v]

\* A call that hands back the very dicts it was given.
ReturnSameObjects(heap, page, columns) ==
    [heap |-> heap,
     ids |-> [i \in 1..Len(page) |->
                CHOOSE k \in 1..Len(heap) : heap[k] = DictObject(page[i])]]

\* _project: [{c: r.get(c) for c in columns} for r in rows], a new dict per row.
ProjectObjects(heap, page, columns) ==
    [heap |-> heap \o [i \in 1..Len(page) |-> DictObject(project_row(page[i], columns))],
     ids |-> [i \in 1..Len(page) |-> Len(heap) + i]]

\* The result rows of an aggregation: dicts built by the call.
NewRowObjects(heap, rows) ==
    [heap |-> heap \o [i \in 1..Len(rows) |-> DictObject(rows[i])],
     ids |-> [i \in 1..Len(rows) |-> Len(heap) + i]]

ValuesAt(heap, ids) == [i \in 1..Len(ids) |-> heap[ids[i]].v]

FrameCall(op, a, made, status, columns, total) ==
    [mock EXCEPT !.heap = made.heap,
                 !.log = Append(@, [op |-> op, args |-> a, ids |-> made.ids,
                                    returned |-> [status |-> status, columns |-> columns,
                                                  rows |-> ValuesAt(made.heap, made.ids),
                                                  total |-> total]])]

FrameQueryInputs ==
    {SqlArgs(selected_columns, <<>>, <<>>, <<>>, filter_group, sort, 2, 0) :
        selected_columns \in {<<"region", "year", "amount">>, <<"year">>},
        sort \in {<<>>, <<SortSpec("amount", "desc")>>},
        filter_group \in {NoFilter,
                          Group("and", FALSE, <<Cond("region", "eq", North, FALSE)>>, <<>>)}}

FrameAggregateInputs ==
    {SqlArgs(<<>>, <<"region">>, group_by_cols, values, filter_group, <<>>, 2, 0) :
        group_by_cols \in {<<>>, <<"year">>, <<"year", "region">>},
        values \in {<<ValueSpec("amount", "sum")>>,
                    <<ValueSpec("amount", "sum"), ValueSpec("year", "max")>>},
        filter_group \in {NoFilter,
                          Group("and", FALSE, <<Cond("region", "eq", North, FALSE)>>, <<>>)}}

FrameReady == Len(mock.log) < MaxFrameSteps

FrameInit ==
    /\ mock = [heap |-> [i \in 1..Len(Data) |-> DictObject(Data[i])]
                        \o <<ListObject(ColumnNames)>>,
               data |-> [i \in 1..Len(Data) |-> i],
               columns |-> Len(Data) + 1,
               log |-> <<>>]
    /\ FilterIdle
    /\ QueryIdle
    /\ GridIdle
    /\ RegistryIdle
    /\ SqlIdle
    /\ AgIdle
    /\ DocIdle
    /\ MemIdle
    /\ RepIdle
    /\ PivIdle

\* query over the stored rows as they are now.
FrameQueryRows(rows, a) ==
    FrameCall("query", a,
              ProjectObjects(mock.heap,
                             islice(apply_sort(rows, a.sort), a.offset, a.limit),
                             a.selected_columns),
              "ok", a.selected_columns, Len(rows))

FrameQuery ==
    /\ FrameReady
    /\ \E a \in FrameQueryInputs :
          mock' = FrameQueryRows(apply_filter(Stored(mock), a.filter_group), a)
    /\ UNCHANGED <<filterVars, queryVars, gridVars, registryVars, sqlVars, agVars, docVars, memVars, repVars, pivVars>>

FrameAggregateResult(a, result) ==
    FrameCall("aggregate", a, NewRowObjects(mock.heap, result.rows),
              result.status, result.columns, result.total)

FrameAggregate ==
    /\ FrameReady
    /\ \E a \in FrameAggregateInputs :
          mock' = FrameAggregateResult(
                      a, AggregateRows(apply_filter(Stored(mock), a.filter_group),
                                       a.group_by_rows, a.group_by_cols, a.values,
                                       a.sort, a.limit, a.offset))
    /\ UNCHANGED <<filterVars, queryVars, gridVars, registryVars, sqlVars, agVars, docVars, memVars, repVars, pivVars>>

\* get_columns: return list(self._columns), a new list.
FrameGetColumns ==
    /\ FrameReady
    /\ mock' = [mock EXCEPT
                  !.heap = Append(@, ListObject(mock.heap[mock.columns].v)),
                  !.log = Append(@, [op |-> "get_columns", args |-> <<>>,
                                     ids |-> <<Len(mock.heap) + 1>>,
                                     returned |-> mock.heap[mock.columns].v])]
    /\ UNCHANGED <<filterVars, queryVars, gridVars, registryVars, sqlVars, agVars, docVars, memVars, repVars, pivVars>>

\* What a caller may do to a dict it holds: row[k] = v, or row.clear().
Mutations(d) ==
    {Dict(d.keys \o <<"region">>, [k \in DOMAIN d.m \cup {"region"} |->
                                      IF k = "region" THEN Str("W") ELSE d.m[k]]),
     Dict(<<>>, <<>>)}

Mutated(id, v) ==
    [mock EXCEPT !.heap[id].v = v,
                 !.log = Append(@, [op |-> "mutate", args |-> id, ids |-> <<>>,
                                    returned |-> <<>>])]

\* The objects callers hold: those some call returned.
Held(kind) ==
    {id \in 1..Len(mock.heap) :
        /\ mock.heap[id].kind = kind
        /\ \E i \in 1..Len(mock.log) : id \in Range(mock.log[i].ids)}

CallerMutatesRow ==
    /\ FrameReady
    /\ \E id \in Held("dict") : \E d \in Mutations(mock.heap[id].v) :
          mock' = Mutated(id, d)
    /\ UNCHANGED <<filterVars, queryVars, gridVars, registryVars, sqlVars, agVars, docVars, memVars, repVars, pivVars>>

\* columns.append(...) on a list get_columns returned.
CallerMutatesColumns ==
    /\ FrameReady
    /\ \E id \in Held("list") : mock' = Mutated(id, Append(mock.heap[id].v, "bogus"))
    /\ UNCHANGED <<filterVars, queryVars, gridVars, registryVars, sqlVars, agVars, docVars, memVars, repVars, pivVars>>

FrameNext ==
    \/ FrameQuery
    \/ FrameAggregate
    \/ FrameGetColumns
    \/ CallerMutatesRow
    \/ CallerMutatesColumns

SpecFrame == FrameInit /\ [][FrameNext]_vars

FrameCalls == {i \in 1..Len(mock.log) : mock.log[i].op # "mutate"}

\* C18: whatever calls were made and whatever callers did to the rows and
\* lists they were handed, the provider's rows and column list are as
\* constructed, and a call repeated with the same arguments returned what it
\* returned the first time.
C18_FrameEffect ==
    /\ Stored(mock) = Data
    /\ mock.heap[mock.columns].v = ColumnNames
    /\ \A i \in FrameCalls : \A j \in FrameCalls :
          (i < j /\ mock.log[i].op = mock.log[j].op /\ mock.log[i].args = mock.log[j].args)
              => mock.log[j].returned = mock.log[i].returned

\* A query returned rows, the caller changed one of them, and the same query
\* was made again.
C18_Witness ==
    /\ Len(mock.log) = 3
    /\ mock.log[1].op = "query" /\ mock.log[1].ids # <<>>
    /\ mock.log[2].op = "mutate" /\ mock.log[2].args \in Range(mock.log[1].ids)
    /\ mock.log[3].op = "query" /\ mock.log[3].args = mock.log[1].args

\* The aggregate calls of the frame spec that returned a result.
Aggregations == {i \in FrameCalls : mock.log[i].op = "aggregate"
                                    /\ mock.log[i].returned.status = "ok"}

\* The distinct pivot tuples of the rows the filter keeps.
PivotTuples(a) ==
    {[k \in 1..Len(a.group_by_cols) |-> Get(r, a.group_by_cols[k])] :
        r \in Range(apply_filter(Data, a.filter_group))}

\* columns is the row dimensions in order, then for the pivot tuples in
\* order[1], order[2], ... one descriptor per ValueSpec.
LaidOut(columns, a, order) ==
    /\ Len(columns) = Len(a.group_by_rows) + Len(order) * Len(a.values)
    /\ \A i \in 1..Len(a.group_by_rows) :
          columns[i].key = a.group_by_rows[i] /\ columns[i].pivot_keys = <<>>
    /\ \A b \in 1..Len(order) : \A v \in 1..Len(a.values) :
          LET c == columns[Len(a.group_by_rows) + (b - 1) * Len(a.values) + v]
              parts == [k \in 1..Len(order[b]) |-> str(order[b][k])]
          IN /\ c.pivot_keys = parts
             /\ c.key = Join(parts \o <<a.values[v].agg, a.values[v].column>>, "_")
             /\ c.measure = a.values[v].column
             /\ c.agg = a.values[v].agg

\* order lists every tuple of T once, in ascending order.
Ascending(order, T) ==
    /\ Range(order) = T
    /\ \A b \in 1..(Len(order) - 1) : TupleLess(order[b], order[b + 1])

TextSpec(type, filter) ==
    AgSpec({"filterType", "type", "filter"}, "text", type, filter, Null, Null, Null, "", <<>>)

NumberSpec(filterType, type, filter) ==
    AgSpec({"filterType", "type", "filter"}, filterType, type, filter, Null, Null, Null,
           "", <<>>)

RangeSpec(filter, filterTo) ==
    AgSpec({"filterType", "type", "filter", "filterTo"}, "number", "inRange", filter,
           filterTo, Null, Null, "", <<>>)

DateFromSpec(type, dateFrom) ==
    AgSpec({"filterType", "type", "dateFrom"}, "date", type, Null, Null, dateFrom, Null,
           "", <<>>)

CombinedSpec(operator, conditions) ==
    AgSpec({"filterType", "operator", "conditions"}, "number", "", Null, Null, Null, Null,
           operator, conditions)

AgSpecs ==
    {TextSpec(type, North) : type \in {"contains", "notContains", "startsWith"}}
    \cup {NumberSpec(filterType, type, filter) :
            filterType \in {"number", "date"},
            type \in {"equals", "greaterThan", "lessThanOrEqual"},
            filter \in {Num(0), Num(1)}}
    \cup {RangeSpec(filter, Num(2)) : filter \in {Num(0), Num(1)}}
    \cup {DateFromSpec("lessThan", Num(2)), SetFilter(<<North>>),
          CombinedSpec("OR", <<NumberSpec("number", "lessThan", Num(1)),
                               NumberSpec("number", "greaterThan", Num(2))>>)}

AgEntries == [column : {"region", "amount"}, spec : AgSpecs]

\* The filterModels: JSON objects, so no column twice.
AgModels ==
    {m \in {<<>>} \cup SeqsUpTo(AgEntries, MaxEntries) :
        \A i \in 1..Len(m) : \A j \in 1..Len(m) : i # j => m[i].column # m[j].column}

AgInit ==
    /\ ag \in [pc : {"input"}, filter_model : AgModels, parsed : {NoFilter}]
    /\ FilterIdle
    /\ QueryIdle
    /\ GridIdle
    /\ RegistryIdle
    /\ SqlIdle
    /\ MockIdle
    /\ DocIdle
    /\ MemIdle
    /\ RepIdle
    /\ PivIdle

ParseFilterModel ==
    /\ ag.pc = "input"
    /\ ag' = [ag EXCEPT !.pc = "done",
                        !.parsed = parse_ag_grid_filter_model(ag.filter_model)]
    /\ UNCHANGED <<filterVars, queryVars, gridVars, registryVars, sqlVars, mockVars, docVars, memVars, repVars, pivVars>>

AgNext == ParseFilterModel

SpecAg == AgInit /\ [][AgNext]_vars

\* The operator the table gives for a comparison type.
ComparisonOperator(type) ==
    CASE type = "equals" -> "eq"
      [] type = "notEqual" -> "neq"
      [] type = "greaterThan" -> "gt"
      [] type = "greaterThanOrEqual" -> "gte"
      [] type = "lessThan" -> "lt"
      [] type = "lessThanOrEqual" -> "lte"

ComparisonTypes ==
    {"equals", "notEqual", "greaterThan", "greaterThanOrEqual", "lessThan",
     "lessThanOrEqual"}

\* The entries the claim tabulates: a text notContains entry, a number or
\* date entry of a comparison type with its filter value, and inRange.
IsTabulated(e) ==
    /\ e.spec.keys \cap {"operator", "conditions"} = {}
    /\ "filter" \in e.spec.keys
    /\ \/ e.spec.filterType = "text" /\ e.spec.type = "notContains"
       \/ e.spec.filterType \in {"number", "date"}
          /\ e.spec.type \in ComparisonTypes \cup {"inRange"}

Tabulated(e) ==
    CASE e.spec.filterType = "text" -> Cond(e.column, "contains", e.spec.filter, TRUE)
      [] e.spec.type = "inRange" ->
            Cond(e.column, "between", List(<<e.spec.filter, e.spec.filterTo>>), FALSE)
      [] OTHER -> Cond(e.column, ComparisonOperator(e.spec.type), e.spec.filter, FALSE)

\* C20: an empty filterModel gives no filter; a filterModel of tabulated
\* entries gives the AND group of one condition per entry, in order, each as
\* the table says, a comparison being bound to the entry's filter value,
\* 0 included.
C20_FilterModelTable ==
    ag.pc = "done" =>
        /\ ag.filter_model = <<>> => ag.parsed = NoFilter
        /\ (ag.filter_model # <<>>
            /\ \A i \in 1..Len(ag.filter_model) : IsTabulated(ag.filter_model[i]))
              => ag.parsed = Group("and", FALSE,
                                   [i \in 1..Len(ag.filter_model) |->
                                       Tabulated(ag.filter_model[i])],
                                   <<>>)

(***************************************************************************)
(* FilterGroup documents (sanjaya_core/filters.py): model_validate with    *)
(* the "not" alias, and model_dump with by_alias.  A document is a JSON    *)
(* object: keys is the set of keys that are present, and a field whose key *)
(* is absent holds a filler (FALSE, "", Null or <<>>).                     *)
(***************************************************************************)
MaxNesting == 2   \* levels of groups in the documents of the document spec

ConditionDoc(keys, column, operator, value, not, negate) ==
    [keys |-> keys, column |-> column, operator |-> operator, value |-> value,
     not |-> not, negate |-> negate]

GroupDoc(keys, combinator, not, negate, conditions, groups) ==
    [keys |-> keys, combinator |-> combinator, not |-> not, negate |-> negate,
     conditions |-> conditions, groups |-> groups]

\* if isinstance(data, dict) and "not" in data and "negate" not in data:
\*     data["negate"] = data.pop("not")
accept_not_alias(data) ==
    IF "not" \in data.keys /\ "negate" \notin data.keys
    THEN [data EXCEPT !.keys = (@ \ {"not"}) \cup {"negate"},
                      !.negate = data.not, !.not = FALSE]
    ELSE data

\* FilterCondition.model_validate: the alias validator, then the fields with
\* their defaults; a key that is no field (a "not" beside "negate") is ignored.
FilterCondition_validate(document) ==
    LET data == accept_not_alias(document)
    IN Cond(data.column, data.operator,
            IF "value" \in data.keys THEN data.value ELSE Null,
            IF "negate" \in data.keys THEN data.negate ELSE FALSE)

RECURSIVE FilterGroup_validate(_)
FilterGroup_validate(document) ==
    LET data == accept_not_alias(document)
    IN Group(IF "combinator" \in data.keys THEN data.combinator ELSE "and",
             IF "negate" \in data.keys THEN data.negate ELSE FALSE,
             IF "conditions" \in data.keys
             THEN [i \in 1..Len(data.conditions) |->
                      FilterCondition_validate(data.conditions[i])]
             ELSE <<>>,
             IF "groups" \in data.keys
             THEN [i \in 1..Len(data.groups) |-> FilterGroup_validate(data.groups[i])]
             ELSE <<>>)

\* BaseModel.model_dump: every field under its field name, nested models
\* included (the serializer does not call the overridden model_dump on them).
RECURSIVE BaseModel_model_dump(_)
BaseModel_model_dump(group) ==
    GroupDoc({"combinator", "negate", "conditions", "groups"},
             group.combinator, FALSE, group.negate,
             [i \in 1..Len(group.conditions) |->
                 ConditionDoc({"column", "operator", "value", "negate"},
                              group.conditions[i].column, group.conditions[i].operator,
                              group.conditions[i].value, FALSE,
                              group.conditions[i].negate)],
             [i \in 1..Len(group.groups) |-> BaseModel_model_dump(group.groups[i])])

\* data["not"] = data.pop("negate")
pop_negate(data) ==
    IF "negate" \in data.keys
    THEN [data EXCEPT !.keys = (@ \ {"negate"}) \cup {"not"},
                      !.not = data.negate, !.negate = FALSE]
    ELSE data

\* A rename that stops at the nested groups' own flags.
negate_to_not_shallow(data, by_alias) ==
    IF ~by_alias THEN data
    ELSE [pop_negate(data) EXCEPT
             !.conditions = [i \in 1..Len(@) |-> pop_negate(@[i])],
             !.groups = [i \in 1..Len(@) |-> pop_negate(@[i])]]

RECURSIVE negate_to_not(_, _)
negate_to_not(data, by_alias) ==
    IF ~by_alias THEN data
    ELSE [pop_negate(data) EXCEPT
             !.conditions = [i \in 1..Len(@) |-> pop_negate(@[i])],
             !.groups = [i \in 1..Len(@) |-> negate_to_not(@[i], TRUE)]]

model_dump(group, by_alias) == negate_to_not(BaseModel_model_dump(group), by_alias)

(***************************************************************************)
(* Document specification: one document is validated, dumped, and the dump *)
(* is validated and dumped again.                                          *)
(***************************************************************************)
\* How a document spells its negation flag: not at all, as "not", as
\* "negate", or with both keys.
Spellings ==
    {[keys |-> {}, not |-> FALSE, negate |-> FALSE],
     [keys |-> {"not"}, not |-> TRUE, negate |-> FALSE],
     [keys |-> {"negate"}, not |-> FALSE, negate |-> TRUE],
     [keys |-> {"not", "negate"}, not |-> TRUE, negate |-> FALSE]}

ConditionDocs ==
    {ConditionDoc({"column", "operator", "value"} \cup s.keys, "region", "eq", North,
                  s.not, s.negate) : s \in Spellings}

RECURSIVE GroupDocs(_)
GroupDocs(depth) ==
    IF depth = 0 THEN {}
    ELSE {GroupDoc((IF comb = "" THEN {} ELSE {"combinator"}) \cup s.keys
                   \cup (IF conds = <<>> THEN {} ELSE {"conditions"})
                   \cup (IF groups = <<>> THEN {} ELSE {"groups"}),
                   comb, s.not, s.negate, conds, groups) :
             comb \in {"", "or"}, s \in Spellings,
             conds \in {<<>>} \cup {<<c>> : c \in ConditionDocs},
             groups \in {<<>>} \cup {<<g>> : g \in GroupDocs(depth - 1)}}

DocInit ==
    /\ doc \in [pc : {"input"}, by_alias : BOOLEAN, x : GroupDocs(MaxNesting),
                parsed : {NoFilter}, d : {<<>>}, again : {NoFilter},
                redumped : {<<>>}]
    /\ FilterIdle
    /\ QueryIdle
    /\ GridIdle
    /\ RegistryIdle
    /\ SqlIdle
    /\ MockIdle
    /\ AgIdle
    /\ MemIdle
    /\ RepIdle
    /\ PivIdle

DocOthers == <<filterVars, queryVars, gridVars, registryVars, sqlVars, mockVars, agVars, memVars, repVars, pivVars>>

\* parse(x)
Validate ==
    /\ doc.pc = "input"
    /\ doc' = [doc EXCEPT !.pc = "parsed", !.parsed = FilterGroup_validate(doc.x)]
    /\ UNCHANGED DocOthers

\* d = dump(parse(x), by_alias)
Dump ==
    /\ doc.pc = "parsed"
    /\ doc' = [doc EXCEPT !.pc = "dumped", !.d = model_dump(doc.parsed, doc.by_alias)]
    /\ UNCHANGED DocOthers

\* parse(d)
ValidateDump ==
    /\ doc.pc = "dumped"
    /\ doc' = [doc EXCEPT !.pc = "reparsed", !.again = FilterGroup_validate(doc.d)]
    /\ UNCHANGED DocOthers

\* dump(parse(d), by_alias)
DumpAgain ==
    /\ doc.pc = "reparsed"
    /\ doc' = [doc EXCEPT !.pc = "done",
                          !.redumped = model_dump(doc.again, doc.by_alias)]
    /\ UNCHANGED DocOthers

DocNext == Validate \/ Dump \/ ValidateDump \/ DumpAgain

SpecDoc == DocInit /\ [][DocNext]_vars

\* Every negation flag of the document, at every depth, is spelled "not".
RECURSIVE SpelledNot(_)
SpelledNot(data) ==
    /\ "not" \in data.keys
    /\ "negate" \notin data.keys
    /\ \A i \in 1..Len(data.conditions) :
          "not" \in data.conditions[i].keys /\ "negate" \notin data.conditions[i].keys
    /\ \A i \in 1..Len(data.groups) : SpelledNot(data.groups[i])

\* C22: for every document x, d = dump(parse(x), by_alias) parses to what x
\* parses to, dumps again to d itself, and spells every negation flag "not"
\* at every depth.
C22_DumpRoundTrip ==
    (doc.pc = "done" /\ doc.by_alias)
    => /\ doc.again = doc.parsed
       /\ doc.redumped = doc.d
       /\ SpelledNot(doc.d)

C22_Witness ==
    /\ doc.pc = "done"
    /\ doc.by_alias
    /\ "not" \in doc.x.keys
    /\ doc.x.groups # <<>>
    /\ doc.x.groups[1].conditions # <<>>
    /\ "negate" \in doc.x.groups[1].conditions[1].keys
    /\ "not" \notin doc.x.groups[1].conditions[1].keys
    /\ doc.d.not
    /\ doc.d.groups[1].conditions[1].not
    /\ doc.again.groups[1].conditions[1].negate

(***************************************************************************)
(* Memory specification: a list of rows, each with its own id, is sorted   *)
(* by _apply_sort or aggregated as one bucket by _compute_agg              *)
(* (sanjaya_core/mock.py).                                                 *)
(***************************************************************************)
MaxMemRows == 3   \* rows in the list of the memory spec

\* A cell of a row that has no such key.
Absent == [t |-> "absent", n |-> 0, s |-> "", items |-> <<>>]

MemRow(id, amount, year) ==
    Dict(<<"id">> \o (IF amount = Absent THEN <<>> ELSE <<"amount">>) \o <<"year">>,
         [id |-> Num(id), amount |-> amount, year |-> year])

MemCells == {Num(1), Num(2), Null, Absent} \X {Num(1), Null}

RECURSIVE MemRows(_)
\* The lists of n rows, the row in place i having id i.
MemRows(n) ==
    IF n = 0 THEN {<<>>}
    ELSE {Append(rows, MemRow(n, c[1], c[2])) : rows \in MemRows(n - 1), c \in MemCells}

MemSorts ==
    {<<>>}
    \cup {<<SortSpec(c, d)>> : c \in {"amount", "year"}, d \in {"asc", "desc"}}
    \cup {<<SortSpec(c[1], d1), SortSpec(c[2], d2)>> :
            c \in {<<"amount", "year">>, <<"year", "amount">>},
            d1 \in {"asc", "desc"}, d2 \in {"asc", "desc"}}

AggFuncs == {"count", "distinctCount", "sum", "avg", "min", "max", "first", "last"}

MemInit ==
    /\ mem \in [pc : {"input"}, rows : UNION {MemRows(n) : n \in 0..MaxMemRows},
                sort : {<<>>}, agg : {""}, column : {""}, sorted : {<<>>},
                value : {Null}]
    /\ FilterIdle
    /\ QueryIdle
    /\ GridIdle
    /\ RegistryIdle
    /\ SqlIdle
    /\ MockIdle
    /\ AgIdle
    /\ DocIdle
    /\ RepIdle
    /\ PivIdle

MemOthers == <<filterVars, queryVars, gridVars, registryVars, sqlVars, mockVars, agVars, docVars, repVars, pivVars>>

\* rows = self._apply_sort(rows, sort)
MemSort ==
    /\ mem.pc = "input"
    /\ \E sort \in MemSorts :
          mem' = [mem EXCEPT !.pc = "sorted", !.sort = sort,
                             !.sorted = apply_sort(mem.rows, sort)]
    /\ UNCHANGED MemOthers

\* _compute_agg(vs.agg, vs.column, bucket): a bucket holds at least one row.
MemAggregate ==
    /\ mem.pc = "input"
    /\ mem.rows # <<>>
    /\ \E agg \in AggFuncs :
          mem' = [mem EXCEPT !.pc = "aggregated", !.agg = agg, !.column = "amount",
                             !.value = compute_agg(agg, "amount", mem.rows)]
    /\ UNCHANGED MemOthers

MemNext == MemSort \/ MemAggregate

SpecMem == MemInit /\ [][MemNext]_vars

\* Row x comes strictly before row y on one SortSpec: ascending puts the
\* smaller value first and a null or absent value last, descending the
\* larger value first and a null or absent value first.
ComesFirst(x, y, spec) ==
    LET a == Get(x, spec.column)
        b == Get(y, spec.column)
    IN IF spec.direction = "asc"
       THEN ~IsNone(a) /\ (IsNone(b) \/ ValLess(a, b))
       ELSE IF IsNone(a) THEN ~IsNone(b)
            ELSE ~IsNone(b) /\ ValLess(b, a)

\* Neither row comes before the other on the SortSpec.
Tied(x, y, spec) == ~ComesFirst(x, y, spec) /\ ~ComesFirst(y, x, spec)

\* Lexicographic order, the first SortSpec being the primary key.
LexFirst(x, y, sort) ==
    \E k \in 1..Len(sort) :
        /\ ComesFirst(x, y, sort[k])
        /\ \A j \in 1..(k - 1) : Tied(x, y, sort[j])

\* C23: the sorted list holds the same rows, no row after a row it comes
\* lexicographically before (first SortSpec primary, null or absent values
\* last ascending and first descending), and rows tied on every sort key in
\* their original order.
C23_SortOrder ==
    mem.pc = "sorted" =>
        /\ Len(mem.sorted) = Len(mem.rows)
        /\ Range(mem.sorted) = Range(mem.rows)
        /\ \A i \in 1..Len(mem.sorted) : \A j \in 1..Len(mem.sorted) :
              i < j =>
                 /\ ~LexFirst(mem.sorted[j], mem.sorted[i], mem.sort)
                 /\ (~LexFirst(mem.sorted[i], mem.sorted[j], mem.sort)
                     => mem.sorted[i].m.id.n < mem.sorted[j].m.id.n)

\* Three rows were sorted by two SortSpecs, the second descending: a row
\* with a null primary key went last, and two rows tied on both keys kept
\* their order behind a row they trail on the second key only.
C23_Witness ==
    /\ mem.pc = "sorted"
    /\ Len(mem.sort) = 2
    /\ mem.sort[1].direction = "asc" /\ mem.sort[2].direction = "desc"
    /\ Len(mem.rows) = 3
    /\ mem.sorted # mem.rows
    /\ \E i \in 1..3 : \E j \in 1..3 :
          /\ i < j
          /\ Tied(mem.sorted[i], mem.sorted[j], mem.sort[1])
          /\ ComesFirst(mem.sorted[i], mem.sorted[j], mem.sort[2])
          /\ mem.sorted[i].m.id.n > mem.sorted[j].m.id.n
    /\ \E i \in 1..2 :
          /\ Tied(mem.sorted[i], mem.sorted[i + 1], mem.sort[1])
          /\ Tied(mem.sorted[i], mem.sorted[i + 1], mem.sort[2])

\* The bucket's values of the aggregated column, row by row (an absent key
\* reads as null), and the places of the non-null ones.
BucketValues == [i \in 1..Len(mem.rows) |-> Get(mem.rows[i], mem.column)]
NonNullPlaces == {i \in 1..Len(mem.rows) : ~IsNone(BucketValues[i])}

RECURSIVE SumAt(_)
SumAt(places) ==
    IF places = {} THEN 0
    ELSE LET i == CHOOSE i \in places : TRUE
         IN BucketValues[i].n + SumAt(places \ {i})

\* C24: for a bucket, COUNT is the number of its rows, null values included;
\* DISTINCT_COUNT the number of distinct values, null being one; SUM, AVG, MIN
\* and MAX are taken over the non-null values and are null when there is
\* none; FIRST and LAST are the values of the first and the last row.
C24_BucketAggregates ==
    mem.pc = "aggregated" =>
        CASE mem.agg = "count" -> mem.value = Num(Len(mem.rows))
          [] mem.agg = "distinctCount" ->
                mem.value = Num(Cardinality({BucketValues[i] : i \in 1..Len(mem.rows)}))
          [] mem.agg = "first" -> mem.value = BucketValues[1]
          [] mem.agg = "last" -> mem.value = BucketValues[Len(mem.rows)]
          [] mem.agg \in {"sum", "avg", "min", "max"} /\ NonNullPlaces = {} ->
                mem.value = Null
          [] mem.agg = "sum" /\ NonNullPlaces # {} ->
                mem.value = Num(SumAt(NonNullPlaces))
          [] mem.agg = "avg" /\ NonNullPlaces # {} ->
                /\ mem.value.t = "float"
                /\ mem.value.n * Cardinality(NonNullPlaces)
                   = SumAt(NonNullPlaces) * mem.value.items[1].n
          [] mem.agg = "min" /\ NonNullPlaces # {} ->
                /\ \E i \in NonNullPlaces : mem.value = BucketValues[i]
                /\ \A i \in NonNullPlaces : mem.value.n <= BucketValues[i].n
          [] mem.agg = "max" /\ NonNullPlaces # {} ->
                /\ \E i \in NonNullPlaces : mem.value = BucketValues[i]
                /\ \A i \in NonNullPlaces : mem.value.n >= BucketValues[i].n

\* The average of a bucket that holds 1, 2 and a null value is 3/2.
C24_Witness ==
    /\ mem.pc = "aggregated"
    /\ mem.agg = "avg"
    /\ Len(mem.rows) = 3
    /\ Cardinality(NonNullPlaces) = 2
    /\ IsNone(BucketValues[1])
    /\ mem.value = Float(3, 2)

(***************************************************************************)
(* Saved reports (sanjaya_django/services/reports.py, api/reports.py).     *)
(* A user is a record: perms is the set of codenames of the report         *)
(* permissions the user holds, user_share the permission of the user's     *)
(* share row on the report ("" for none) and group_shares the permissions  *)
(* of the share rows of the groups the user is in.  None is "" for a       *)
(* permission or a user and 0 for a time.                                  *)
(***************************************************************************)
MaxReportRequests == 3   \* requests to the actions endpoint in the report spec

User(pk, is_authenticated, is_superuser, perms, user_share, group_shares) ==
    [pk |-> pk, is_authenticated |-> is_authenticated, is_superuser |-> is_superuser,
     perms |-> perms, user_share |-> user_share, group_shares |-> group_shares]

DynamicReport(status, created_by, published_at, published_by, archived_at) ==
    [status |-> status, created_by |-> created_by, published_at |-> published_at,
     published_by |-> published_by, archived_at |-> archived_at]

has_perm(user, codename) == user.is_superuser \/ codename \in user.perms

prio(p) == CASE p = "owner" -> 3 [] p = "editor" -> 2 [] p = "viewer" -> 1 [] OTHER -> 0

\* max(group_perms, key=prio): the first permission of the highest priority.
MaxPermission(group_perms) ==
    group_perms[CHOOSE i \in 1..Len(group_perms) :
                   /\ \A j \in 1..Len(group_perms) : prio(group_perms[j]) <= prio(group_perms[i])
                   /\ \A j \in 1..(i - 1) : prio(group_perms[j]) < prio(group_perms[i])]

resolve_effective_permission(report, user) ==
    IF report.created_by = user.pk THEN "owner"
    ELSE IF has_perm(user, "can_edit_any") THEN "editor"
    ELSE IF has_perm(user, "can_view_any") THEN "viewer"
    ELSE IF user.user_share # "" THEN user.user_share
    ELSE IF user.group_shares # <<>> THEN MaxPermission(user.group_shares)
    ELSE ""

When(condition, action) == IF condition THEN <<action>> ELSE <<>>

compute_available_actions(report, user) ==
    LET perm == resolve_effective_permission(report, user)
        may == perm = "owner" \/ has_perm(user, "publish_any")
    IN IF perm = "" THEN <<>>
       ELSE When(perm \in {"editor", "owner"}, "edit")
            \o When(report.status = "draft" /\ may, "publish")
            \o When(report.status = "published" /\ may, "unpublish")
            \o When(report.status = "published" /\ may, "archive")
            \o When(report.status = "archived" /\ may, "restore")
            \o When(perm = "owner" \/ has_perm(user, "can_manage_shares_any"), "share")
            \o When(perm = "owner" \/ has_perm(user, "can_transfer_ownership_any"),
                    "transferOwnership")
            \o When(perm = "owner" \/ has_perm(user, "can_destroy_any"), "delete")
            \o <<"favorite">>

\* The users get_user_model() holds.
UserPks == {"ann", "bob"}

\* What perform_action did: the saved report, whether its row still exists,
\* the favorites, and the exception raised ("" for none).
Performed(report, exists, favorites, raised) ==
    [report |-> report, exists |-> exists, favorites |-> favorites, raised |-> raised]

perform_action(report, favorites, action, user, target_user_id, now) ==
    CASE action = "publish" ->
            Performed([report EXCEPT !.status = "published", !.published_at = now,
                                     !.published_by = user.pk], TRUE, favorites, "")
      [] action = "unpublish" ->
            Performed([report EXCEPT !.status = "draft", !.published_at = 0,
                                     !.published_by = ""], TRUE, favorites, "")
      [] action = "archive" ->
            Performed([report EXCEPT !.status = "archived", !.archived_at = now],
                      TRUE, favorites, "")
      [] action = "restore" ->
            Performed([report EXCEPT !.status = "draft", !.archived_at = 0],
                      TRUE, favorites, "")
      [] action = "transferOwnership" ->
            IF target_user_id \notin UserPks
            THEN Performed(report, TRUE, favorites, "ValueError")
            ELSE Performed([report EXCEPT !.created_by = target_user_id], TRUE,
                           favorites, "")
      [] action = "delete" -> Performed(report, FALSE, {}, "")
      [] action = "favorite" ->
            Performed(report, TRUE,
                      IF user.pk \in favorites THEN favorites \ {user.pk}
                      ELSE favorites \cup {user.pk}, "")
      [] OTHER -> Performed(report, TRUE, favorites, "ValueError")

\* The endpoint's answer: the status code and what is stored afterwards.
ActionResponse(code, report, exists, favorites) ==
    [code |-> code, report |-> report, exists |-> exists, favorites |-> favorites]

\* An endpoint that performs whatever action it is asked for.
perform_any_report_action(report, exists, favorites, user, action, target_user_id, now) ==
    IF ~user.is_authenticated THEN ActionResponse(401, report, exists, favorites)
    ELSE IF ~exists THEN ActionResponse(404, report, exists, favorites)
    ELSE LET done == perform_action(report, favorites, action, user, target_user_id, now)
         IN IF done.raised = "ValueError"
            THEN ActionResponse(400, report, exists, favorites)
            ELSE ActionResponse(200, done.report, done.exists, done.favorites)

perform_report_action(report, exists, favorites, user, action, target_user_id, now) ==
    IF ~user.is_authenticated THEN ActionResponse(401, report, exists, favorites)
    ELSE IF ~exists THEN ActionResponse(404, report, exists, favorites)
    ELSE IF action \notin Range(compute_available_actions(report, user))
    THEN ActionResponse(403, report, exists, favorites)
    ELSE LET done == perform_action(report, favorites, action, user, target_user_id, now)
         IN IF done.raised = "ValueError"
            THEN ActionResponse(400, report, exists, favorites)
            ELSE ActionResponse(200, done.report, done.exists, done.favorites)

(***************************************************************************)
(* Report specification: a draft report created by ann; ann, bob (whose    *)
(* permissions and shares are drawn at the start) and an anonymous caller  *)
(* post actions to the actions endpoint, one request after the other.      *)
(***************************************************************************)
Ann == User("ann", TRUE, FALSE, {}, "", <<>>)
Anonymous == User("", FALSE, FALSE, {}, "", <<>>)

Bobs ==
    {User("bob", TRUE, is_superuser, perms, user_share, group_shares) :
        is_superuser \in BOOLEAN,
        perms \in SUBSET {"can_view_any", "can_edit_any", "can_publish_any"},
        user_share \in {"", "viewer", "editor"},
        group_shares \in {<<>>, <<"viewer">>, <<"editor">>, <<"viewer", "editor">>}}

ReportActions ==
    {"publish", "unpublish", "archive", "restore", "edit", "transferOwnership",
     "delete", "favorite", "approve"}

NoAction == [user |-> Anonymous, action |-> "", code |-> 0, permission |-> "",
             before |-> DynamicReport("", "", 0, "", 0)]

RepInit ==
    /\ rep \in [pc : {"live"}, report : {DynamicReport("draft", "ann", 0, "", 0)},
                exists : {TRUE}, favorites : {{}}, bob : Bobs, clock : {0},
                last : {NoAction}]
    /\ FilterIdle
    /\ QueryIdle
    /\ GridIdle
    /\ RegistryIdle
    /\ SqlIdle
    /\ MockIdle
    /\ AgIdle
    /\ DocIdle
    /\ MemIdle
    /\ PivIdle

RepOthers == <<filterVars, queryVars, gridVars, registryVars, sqlVars, mockVars, agVars, docVars, memVars, pivVars>>

Responded(user, action, response) ==
    [rep EXCEPT !.report = response.report, !.exists = response.exists,
                !.favorites = response.favorites, !.clock = @ + 1,
                !.last = [user |-> user, action |-> action, code |-> response.code,
                          permission |-> resolve_effective_permission(rep.report, user),
                          before |-> rep.report]]

\* POST /reports/{report_id}/actions
PostAction ==
    /\ rep.pc = "live"
    /\ rep.clock < MaxReportRequests
    /\ \E user \in {Ann, rep.bob, Anonymous} :
       \E action \in ReportActions :
       \E target_user_id \in {"", "bob"} :
          /\ action # "transferOwnership" => target_user_id = ""
          /\ rep' = Responded(user, action,
                        perform_report_action(rep.report, rep.exists, rep.favorites, user,
                                              action, target_user_id, rep.clock + 1))
    /\ UNCHANGED RepOthers

RepNext == PostAction

SpecRep == RepInit /\ [][RepNext]_vars

Lifecycle ==
    {<<"publish", "draft", "published">>, <<"unpublish", "published", "draft">>,
     <<"archive", "published", "archived">>, <<"restore", "archived", "draft">>}

\* C25: a request to the actions endpoint changes the report's status only
\* along publish, unpublish, archive and restore; a request for an action
\* that is not among the caller's available actions for the report as it
\* was is answered 403 and leaves the report as it was.
C25_LifecycleEdges ==
    rep.last.action # "" =>
        /\ rep.report.status # rep.last.before.status
              => <<rep.last.action, rep.last.before.status, rep.report.status>> \in Lifecycle
        /\ (rep.last.code \notin {401, 404}
            /\ rep.last.action \notin Range(compute_available_actions(rep.last.before,
                                                                       rep.last.user)))
              => (rep.last.code = 403 /\ rep.report = rep.last.before /\ rep.exists)

\* The third request archived the published report.
C25_Witness ==
    /\ rep.last.action = "archive"
    /\ rep.last.code = 200
    /\ rep.last.before.status = "published"
    /\ rep.report.status = "archived"
    /\ rep.clock = 3

\* The permissions a user holds on the report besides ownership: the user's
\* share, the shares of the user's groups, and editor or viewer for the
\* global can_edit_any or can_view_any.
Holdings(user) ==
    ({user.user_share} \ {""}) \cup Range(user.group_shares)
    \cup (IF "can_edit_any" \in user.perms THEN {"editor"} ELSE {})
    \cup (IF "can_view_any" \in user.perms THEN {"viewer"} ELSE {})

\* User more is user less with further shares or global permissions.
HoldsMore(more, less) ==
    /\ more.pk = less.pk
    /\ more.is_superuser = less.is_superuser
    /\ less.perms \subseteq more.perms
    /\ less.user_share \in {"", more.user_share}
    /\ Range(less.group_shares) \subseteq Range(more.group_shares)

\* C29: the permission resolved for the caller of a request is at least as
\* high (owner > editor > viewer) as each share and each global permission
\* the caller holds, and no user who holds what the caller holds and more
\* resolves to a lower one.
C29_HighestPermission ==
    (rep.last.action # "" /\ rep.last.code \notin {401, 404}) =>
        /\ \A p \in Holdings(rep.last.user) : prio(rep.last.permission) >= prio(p)
        /\ \A more \in Bobs :
              HoldsMore(more, rep.last.user)
                 => prio(resolve_effective_permission(rep.last.before, more))
                       >= prio(rep.last.permission)

\* C30: after any sequence of publish, unpublish, archive and restore,
\* published_at and published_by are set exactly when the status is
\* published, and archived_at exactly when it is archived.
C30_TimestampsFollowStatus ==
    rep.pc = "live" =>
        /\ rep.report.published_at # 0 <=> rep.report.status = "published"
        /\ rep.report.published_by # "" <=> rep.report.status = "published"
        /\ rep.report.archived_at # 0 <=> rep.report.status = "archived"


(***************************************************************************)
(* Pivot export: sanjaya/services/export.py                                *)
(***************************************************************************)

\* The separator of the pivot keys in a header, the angle quotation mark
\* U+203A between two spaces, written with the ASCII letter nearest to it.
HeaderSeparator == " > "

\* header = HeaderSeparator.join(col.pivot_keys), then " (agg or measure)" when the
\* column has a measure; a dimension column keeps its own header.
export_header(col) ==
    IF col.pivot_keys # <<>>
    THEN Join(col.pivot_keys, HeaderSeparator)
         \o (IF col.measure # ""
             THEN " (" \o (IF col.agg # "" THEN col.agg ELSE col.measure) \o ")"
             ELSE "")
    ELSE col.header

export_headers(columns) == [i \in 1..Len(columns) |-> export_header(columns[i])]

export_col_keys(columns) == [i \in 1..Len(columns) |-> columns[i].key]

\* {h: row.get(k) for h, k in zip(headers, col_keys)} for each row
rows_for_export(headers, col_keys, rows) ==
    [i \in 1..Len(rows) |->
        DictOf(headers, [j \in 1..Len(col_keys) |-> Get(rows[i], col_keys[j])])]

\* ws.append([row.get(c) for c in columns]) / writer.writerow: one cell per header
render_rows(headers, rows) ==
    [i \in 1..Len(rows) |-> [j \in 1..Len(headers) |-> Get(rows[i], headers[j])]]

\* _pivot_export: the full aggregate (limit None, offset 0), re-keyed and rendered.
pivot_export(agg_result) ==
    [headers |-> export_headers(agg_result.columns),
     col_keys |-> export_col_keys(agg_result.columns),
     cells |-> render_rows(export_headers(agg_result.columns),
                           rows_for_export(export_headers(agg_result.columns),
                                           export_col_keys(agg_result.columns),
                                           agg_result.rows))]

(***************************************************************************)
(* Specification Pivot: one pivot aggregation of a small dataset by the    *)
(* in-memory provider, asked for directly or by the export handler.        *)
(***************************************************************************)

MaxPivotRows == 2   \* rows in the dataset of the pivot spec

PivotRowDims == <<"region">>

\* The pivot dimensions p and q of a row: texts with and without underscores.
PivotPairs == {<<"a_b", "d">>, <<"a", "b_d">>, <<"a", "d">>}

PivotDataRow(region, pq, amount) ==
    Dict(<<"region", "p", "q", "amount", "year">>,
         [region |-> Str(region), p |-> Str(pq[1]), q |-> Str(pq[2]),
          amount |-> Num(amount), year |-> Num(5)])

PivotDataRows ==
    {PivotDataRow(r, pq, a) : r \in {"N", "S"}, pq \in PivotPairs, a \in {1, 2}}

RECURSIVE PivotDatasets(_)
PivotDatasets(n) ==
    IF n = 0 THEN {<<>>}
    ELSE {Append(rows, r) : rows \in PivotDatasets(n - 1), r \in PivotDataRows}

PivotColSets == {<<"p">>, <<"p", "q">>}

PivotValueSets ==
    {<<ValueSpec("amount", "sum")>>,
     <<ValueSpec("amount", "sum"), ValueSpec("year", "sum")>>,
     <<ValueSpec("amount", "sum"), ValueSpec("amount", "max")>>}

NoAggregate == [status |-> "", columns |-> <<>>, rows |-> <<>>, total |-> 0]

NoExport == [headers |-> <<>>, col_keys |-> <<>>, cells |-> <<>>]

PivInit ==
    /\ piv \in [pc : {"input"},
                rows : UNION {PivotDatasets(n) : n \in 1..MaxPivotRows},
                group_by_cols : {<<>>}, values : {<<>>},
                result : {NoAggregate}, export : {NoExport}]
    /\ FilterIdle
    /\ QueryIdle
    /\ GridIdle
    /\ RegistryIdle
    /\ SqlIdle
    /\ MockIdle
    /\ AgIdle
    /\ DocIdle
    /\ MemIdle
    /\ RepIdle

PivOthers == <<filterVars, queryVars, gridVars, registryVars, sqlVars, mockVars, agVars, docVars, memVars, repVars>>

\* provider.aggregate(group_by_rows, group_by_cols, values) with pivot dimensions
PivAggregate ==
    /\ piv.pc = "input"
    /\ \E cols \in PivotColSets, values \in PivotValueSets :
          piv' = [piv EXCEPT !.pc = "aggregated", !.group_by_cols = cols,
                             !.values = values,
                             !.result = pivot_aggregate(piv.rows, PivotRowDims, cols,
                                                        values, <<>>, -1, 0)]
    /\ UNCHANGED PivOthers

\* POST export with a pivot request: aggregate, then re-key and render the rows.
PivExport ==
    /\ piv.pc = "input"
    /\ \E cols \in PivotColSets, values \in PivotValueSets :
          piv' = [piv EXCEPT !.pc = "exported", !.group_by_cols = cols,
                             !.values = values,
                             !.result = pivot_aggregate(piv.rows, PivotRowDims, cols,
                                                        values, <<>>, -1, 0),
                             !.export = pivot_export(
                                            pivot_aggregate(piv.rows, PivotRowDims, cols,
                                                            values, <<>>, -1, 0))]
    /\ UNCHANGED PivOthers

PivNext == PivAggregate \/ PivExport

SpecPiv == PivInit /\ [][PivNext]_vars

\* The pivot tuples of the dataset under the request's pivot dimensions.
PivTuples == {GroupKey(piv.rows[i], piv.group_by_cols) : i \in 1..Len(piv.rows)}

\* The pivot tuples met in the row group of region value rk.
PivTuplesOf(rk) ==
    {GroupKey(piv.rows[i], piv.group_by_cols) :
        i \in {k \in 1..Len(piv.rows) : GroupKey(piv.rows[k], PivotRowDims) = rk}}

\* C27: within one pivot aggregate result, distinct (pivot tuple, ValueSpec)
\* pairs receive distinct column keys, so result.columns has no duplicate key
\* and every result row keeps one cell for each bucket and measure of its row
\* group: no cell value is overwritten by another.
C27_DistinctPivotKeys ==
    (piv.pc \in {"aggregated", "exported"} /\ piv.result.status = "ok")
    => /\ \A t1 \in PivTuples, t2 \in PivTuples :
          \A v1 \in Range(piv.values), v2 \in Range(piv.values) :
              PivotKey(t1, v1) = PivotKey(t2, v2) => (t1 = t2 /\ v1 = v2)
       /\ \A i \in 1..Len(piv.result.columns), j \in 1..Len(piv.result.columns) :
              piv.result.columns[i].key = piv.result.columns[j].key => i = j
       /\ \A i \in 1..Len(piv.result.rows) :
              Len(piv.result.rows[i].keys)
                = Len(PivotRowDims)
                  + Cardinality(PivTuplesOf(GroupKey(piv.result.rows[i], PivotRowDims)))
                    * Len(piv.values)

\* C28: in a pivot export, distinct aggregate columns get distinct headers and
\* every exported row carries every column's value: the cell under column j of
\* row i is the aggregate result's value of row i under that column's key.
C28_DistinctExportHeaders ==
    piv.pc = "exported"
    => /\ \A i \in 1..Len(piv.export.headers), j \in 1..Len(piv.export.headers) :
              piv.export.headers[i] = piv.export.headers[j] => i = j
       /\ \A i \in 1..Len(piv.result.rows) : \A j \in 1..Len(piv.result.columns) :
              piv.export.cells[i][j]
                = Get(piv.result.rows[i], piv.result.columns[j].key)

====
